---- MODULE Spec2Model ----
(***************************************************************************)
(* Model of the generate-ats request handler (POST) and of the pure        *)
(* functions it calls: the stop-work trigger evaluator, the checklist      *)
(* evaluator, the procedure aggregator, the checklist sanitizer and        *)
(* enrichment, the fallback synthesizers and the reconciliation steps.     *)
(*                                                                         *)
(* Conventions.                                                            *)
(*  - JavaScript strings are TLA+ strings.  The message texts of the       *)
(*    source are written in ASCII (accents dropped, ">=" for the sign).    *)
(*  - Undefined stands for a string-valued field that is absent, null or   *)
(*    of another type.  NoNumber stands for a numeric field that is not a  *)
(*    number.                                                              *)
(*  - An object of untrusted shape (the draft, the enrichment response) is *)
(*    a record holding only the keys it has: a key is absent when it is    *)
(*    not in the record's DOMAIN.                                          *)
(*  - normative_refs and recommendations are not modelled: the handler     *)
(*    derives them from the request and the draft and reads them nowhere   *)
(*    else.                                                                *)
(***************************************************************************)
EXTENDS Integers, Sequences, FiniteSets, TLC

Undefined == "<undefined>"

NoNumber == -999

Range(s) == {s[i] : i \in 1..Len(s)}

(***************************************************************************)
(* Helpers generales                                                       *)
(***************************************************************************)
pickString(v, fallback) == IF v = Undefined THEN fallback ELSE v

\* String(x ?? ""): null and undefined become the empty string.
StringOrEmpty(x) == IF x = Undefined THEN "" ELSE x

RECURSIVE trimStart(_)
trimStart(s) ==
  IF Len(s) > 0 /\ SubSeq(s, 1, 1) = " " THEN trimStart(SubSeq(s, 2, Len(s))) ELSE s

RECURSIVE trimEnd(_)
trimEnd(s) ==
  IF Len(s) > 0 /\ SubSeq(s, Len(s), Len(s)) = " "
  THEN trimEnd(SubSeq(s, 1, Len(s) - 1))
  ELSE s

trim(s) == trimEnd(trimStart(s))

NonEmptyString(s) == s # ""

MapTrim(v) == [i \in 1..Len(v) |-> trim(StringOrEmpty(v[i]))]

safeArrayStrings(v) == SelectSeq(MapTrim(v), NonEmptyString)

RECURSIVE mergeUniqueLoop(_, _)
mergeUniqueLoop(rest, out) ==
  IF rest = <<>>
  THEN out
  ELSE LET v == trim(StringOrEmpty(Head(rest)))
       IN IF v = "" \/ v \in Range(out)
          THEN mergeUniqueLoop(Tail(rest), out)
          ELSE mergeUniqueLoop(Tail(rest), Append(out, v))

mergeUnique(listA, listB) == mergeUniqueLoop(listA \o listB, <<>>)

\* toLowerCase on the answers the checklist form can carry.
toLowerCase(s) ==
  CASE s = "Si" -> "si"
    [] s = "SI" -> "si"
    [] s = "No" -> "no"
    [] s = "NO" -> "no"
    [] s = "Yes" -> "yes"
    [] OTHER -> s

normalizeYesNo(v) ==
  LET s == toLowerCase(trim(StringOrEmpty(v)))
  IN IF s = "" THEN ""
     ELSE IF s \in {"si", "true", "1", "yes", "y"} THEN "Si"
     ELSE IF s \in {"no", "false", "0", "n"} THEN "No"
     ELSE ""

IfThen(c, s) == IF c THEN <<s>> ELSE <<>>

(***************************************************************************)
(* Stop Work deterministico (ENTORNO/TAREA)                                *)
(***************************************************************************)
TriggerStorm ==
  "Tormenta electrica: suspender actividades expuestas (izaje/alturas/hot work) y asegurar el area."
TriggerRain ==
  "Lluvia: evaluar superficie resbalosa, anclajes y visibilidad; si no hay condiciones seguras -> STOP WORK en alturas."
TriggerWindLifting ==
  "Viento fuerte: STOP WORK para izaje hasta que condiciones sean seguras (control de oscilacion/carga)."
TriggerWindHeight ==
  "Viento fuerte: suspender trabajo en alturas si compromete estabilidad o control del trabajador."
TriggerVisibility ==
  "Visibilidad baja: STOP WORK si no se puede garantizar control del area, senalizacion, comunicacion y supervision."
TriggerLighting ==
  "Iluminacion deficiente: STOP WORK si no se puede corregir con iluminacion artificial adecuada."
TriggerNight ==
  "Trabajo nocturno sin especificar iluminacion: STOP WORK hasta confirmar iluminacion y controles."
TriggerTerrainStrict ==
  "Superficie resbalosa/barro: STOP WORK si compromete estabilidad de equipos/personas o zonas de exclusion."
TriggerTerrainSoft ==
  "Superficie resbalosa/barro: reforzar control de caidas al mismo nivel y demarcacion; detener si no hay control."
TriggerTemperature ==
  "Temperatura elevada (>=35C): detener si no hay pausas, hidratacion, sombra y monitoreo (estres termico)."
TriggerHumidity ==
  "Alta humedad + calor: riesgo de estres termico; detener si no hay control administrativo y vigilancia."
TriggerFog ==
  "Neblina: STOP WORK para izaje si la visibilidad compromete senalizacion, senalero y control de area."

\* (env.x || "").toString()
OrEmpty(v) == IF v = Undefined THEN "" ELSE v

\* The wind rules evaluated once for the wind field and once for the weather
\* field.
computeStopWorkTriggersPerSource(payload) ==
  LET env == payload.environment
      lifting == payload.lifting
      hotWork == payload.hotWork
      workAtHeight == payload.workAtHeight
      weather == OrEmpty(env.weather)
      wind == OrEmpty(env.wind)
      lighting == OrEmpty(env.lighting)
      terrain == OrEmpty(env.terrain)
      visibility == OrEmpty(env.visibility)
      timeOfDay == OrEmpty(env.timeOfDay)
      temperatureC == env.temperatureC
      humidityPct == env.humidityPct
  IN IfThen(weather = "Tormenta electrica" /\ (lifting \/ workAtHeight \/ hotWork), TriggerStorm)
     \o IfThen(weather = "Lluvia" /\ workAtHeight, TriggerRain)
     \o IfThen(wind = "Fuerte" /\ lifting, TriggerWindLifting)
     \o IfThen(wind = "Fuerte" /\ workAtHeight, TriggerWindHeight)
     \o IfThen(weather = "Viento fuerte" /\ lifting, TriggerWindLifting)
     \o IfThen(weather = "Viento fuerte" /\ workAtHeight, TriggerWindHeight)
     \o IfThen(visibility = "Baja", TriggerVisibility)
     \o IfThen(lighting = "Deficiente", TriggerLighting)
     \o IfThen(timeOfDay = "Noche" /\ lighting = "", TriggerNight)
     \o IfThen(terrain \in {"Humedo/Resbaloso", "Barro"} /\ (workAtHeight \/ lifting),
               TriggerTerrainStrict)
     \o IfThen(terrain \in {"Humedo/Resbaloso", "Barro"} /\ ~(workAtHeight \/ lifting),
               TriggerTerrainSoft)
     \o IfThen(temperatureC # NoNumber /\ temperatureC >= 35, TriggerTemperature)
     \o IfThen(humidityPct # NoNumber /\ humidityPct >= 85
               /\ temperatureC # NoNumber /\ temperatureC >= 30, TriggerHumidity)
     \o IfThen(weather = "Neblina" /\ lifting, TriggerFog)

\* The temperature rule with a strict comparison.
computeStopWorkTriggersAbove(payload) ==
  LET env == payload.environment
      lifting == payload.lifting
      hotWork == payload.hotWork
      workAtHeight == payload.workAtHeight
      weather == OrEmpty(env.weather)
      wind == OrEmpty(env.wind)
      lighting == OrEmpty(env.lighting)
      terrain == OrEmpty(env.terrain)
      visibility == OrEmpty(env.visibility)
      timeOfDay == OrEmpty(env.timeOfDay)
      temperatureC == env.temperatureC
      humidityPct == env.humidityPct
  IN IfThen(weather = "Tormenta electrica" /\ (lifting \/ workAtHeight \/ hotWork), TriggerStorm)
     \o IfThen(weather = "Lluvia" /\ workAtHeight, TriggerRain)
     \o IfThen((wind = "Fuerte" \/ weather = "Viento fuerte") /\ lifting, TriggerWindLifting)
     \o IfThen((wind = "Fuerte" \/ weather = "Viento fuerte") /\ workAtHeight, TriggerWindHeight)
     \o IfThen(visibility = "Baja", TriggerVisibility)
     \o IfThen(lighting = "Deficiente", TriggerLighting)
     \o IfThen(timeOfDay = "Noche" /\ lighting = "", TriggerNight)
     \o IfThen(terrain \in {"Humedo/Resbaloso", "Barro"} /\ (workAtHeight \/ lifting),
               TriggerTerrainStrict)
     \o IfThen(terrain \in {"Humedo/Resbaloso", "Barro"} /\ ~(workAtHeight \/ lifting),
               TriggerTerrainSoft)
     \o IfThen(temperatureC # NoNumber /\ temperatureC > 35, TriggerTemperature)
     \o IfThen(humidityPct # NoNumber /\ humidityPct >= 85
               /\ temperatureC # NoNumber /\ temperatureC >= 30, TriggerHumidity)
     \o IfThen(weather = "Neblina" /\ lifting, TriggerFog)

computeStopWorkTriggers(payload) ==
  LET env == payload.environment
      lifting == payload.lifting
      hotWork == payload.hotWork
      workAtHeight == payload.workAtHeight
      weather == OrEmpty(env.weather)
      wind == OrEmpty(env.wind)
      lighting == OrEmpty(env.lighting)
      terrain == OrEmpty(env.terrain)
      visibility == OrEmpty(env.visibility)
      timeOfDay == OrEmpty(env.timeOfDay)
      temperatureC == env.temperatureC
      humidityPct == env.humidityPct
  IN IfThen(weather = "Tormenta electrica" /\ (lifting \/ workAtHeight \/ hotWork), TriggerStorm)
     \o IfThen(weather = "Lluvia" /\ workAtHeight, TriggerRain)
     \o IfThen((wind = "Fuerte" \/ weather = "Viento fuerte") /\ lifting, TriggerWindLifting)
     \o IfThen((wind = "Fuerte" \/ weather = "Viento fuerte") /\ workAtHeight, TriggerWindHeight)
     \o IfThen(visibility = "Baja", TriggerVisibility)
     \o IfThen(lighting = "Deficiente", TriggerLighting)
     \o IfThen(timeOfDay = "Noche" /\ lighting = "", TriggerNight)
     \o IfThen(terrain \in {"Humedo/Resbaloso", "Barro"} /\ (workAtHeight \/ lifting),
               TriggerTerrainStrict)
     \o IfThen(terrain \in {"Humedo/Resbaloso", "Barro"} /\ ~(workAtHeight \/ lifting),
               TriggerTerrainSoft)
     \o IfThen(temperatureC # NoNumber /\ temperatureC >= 35, TriggerTemperature)
     \o IfThen(humidityPct # NoNumber /\ humidityPct >= 85
               /\ temperatureC # NoNumber /\ temperatureC >= 30, TriggerHumidity)
     \o IfThen(weather = "Neblina" /\ lifting, TriggerFog)

(***************************************************************************)
(* Normalizadores                                                          *)
(***************************************************************************)
toStrOrNull(v) == IF v # Undefined /\ trim(v) # "" THEN v ELSE Undefined

EmptyEnvironment ==
  [timeOfDay |-> Undefined, weather |-> Undefined, temperatureC |-> NoNumber,
   humidityPct |-> NoNumber, wind |-> Undefined, lighting |-> Undefined,
   terrain |-> Undefined, visibility |-> Undefined]

\* noiseLevel, procedureUsedText and controlsAvailable are carried through
\* unchanged and read by no rule; they are left out of the record.
normalizeEnvironment(e) ==
  [timeOfDay |-> toStrOrNull(e.timeOfDay),
   weather |-> toStrOrNull(e.weather),
   temperatureC |-> e.temperatureC,
   humidityPct |-> e.humidityPct,
   wind |-> toStrOrNull(e.wind),
   lighting |-> toStrOrNull(e.lighting),
   terrain |-> toStrOrNull(e.terrain),
   visibility |-> toStrOrNull(e.visibility)]

EmptyBrief ==
  [scope |-> Undefined, mandatory_permits |-> <<>>,
   critical_controls |-> [engineering |-> <<>>, administrative |-> <<>>, ppe |-> <<>>],
   stop_work |-> <<>>, mandatory_steps |-> <<>>, restrictions |-> <<>>]

\* A variant of the normalizer below that takes parseable as true only when
\* the field is the boolean true.
normalizeProcedureRefStrict(p) ==
  [title |-> pickString(p.title, "Procedimiento"),
   code |-> pickString(p.code, ""),
   origin |-> pickString(p.origin, ""),
   parseable |-> IF p.parseable = "true" THEN "true" ELSE "false",
   brief |->
     [scope |-> pickString(p.brief.scope, ""),
      mandatory_permits |-> safeArrayStrings(p.brief.mandatory_permits),
      critical_controls |->
        [engineering |-> safeArrayStrings(p.brief.critical_controls.engineering),
         administrative |-> safeArrayStrings(p.brief.critical_controls.administrative),
         ppe |-> safeArrayStrings(p.brief.critical_controls.ppe)],
      stop_work |-> safeArrayStrings(p.brief.stop_work),
      mandatory_steps |-> safeArrayStrings(p.brief.mandatory_steps),
      restrictions |-> safeArrayStrings(p.brief.restrictions)]]

\* A normalizer that prefixes the title with the code: applying it twice
\* does not give what applying it once gives.
normalizeProcedureRefTitled(p) ==
  [title |-> pickString(p.code, "") \o " " \o pickString(p.title, "Procedimiento"),
   code |-> pickString(p.code, ""),
   origin |-> pickString(p.origin, ""),
   parseable |-> IF p.parseable \in {"true", "false"} THEN p.parseable ELSE "true",
   brief |->
     [scope |-> pickString(p.brief.scope, ""),
      mandatory_permits |-> safeArrayStrings(p.brief.mandatory_permits),
      critical_controls |->
        [engineering |-> safeArrayStrings(p.brief.critical_controls.engineering),
         administrative |-> safeArrayStrings(p.brief.critical_controls.administrative),
         ppe |-> safeArrayStrings(p.brief.critical_controls.ppe)],
      stop_work |-> safeArrayStrings(p.brief.stop_work),
      mandatory_steps |-> safeArrayStrings(p.brief.mandatory_steps),
      restrictions |-> safeArrayStrings(p.brief.restrictions)]]

\* A reference as received: title, code and origin are strings or Undefined;
\* parseable is "true" or "false" for the two booleans and anything else for
\* an absent or non-boolean value; an absent brief is EmptyBrief.
normalizeProcedureRef(p) ==
  [title |-> pickString(p.title, "Procedimiento"),
   code |-> pickString(p.code, ""),
   origin |-> pickString(p.origin, ""),
   parseable |-> IF p.parseable \in {"true", "false"} THEN p.parseable ELSE "true",
   brief |->
     [scope |-> pickString(p.brief.scope, ""),
      mandatory_permits |-> safeArrayStrings(p.brief.mandatory_permits),
      critical_controls |->
        [engineering |-> safeArrayStrings(p.brief.critical_controls.engineering),
         administrative |-> safeArrayStrings(p.brief.critical_controls.administrative),
         ppe |-> safeArrayStrings(p.brief.critical_controls.ppe)],
      stop_work |-> safeArrayStrings(p.brief.stop_work),
      mandatory_steps |-> safeArrayStrings(p.brief.mandatory_steps),
      restrictions |-> safeArrayStrings(p.brief.restrictions)]]

SourceOf(p) == [title |-> p.title, code |-> p.code, origin |-> p.origin]

IsApplied(p) == p.parseable # "false"

IsNotParseable(p) == p.parseable = "false"

ControlsOfLevel(p, level) ==
  LET cs == p.brief.critical_controls[level]
      kept == SelectSeq(cs, LAMBDA c : trim(c) # "")
  IN [i \in 1..Len(kept) |-> [level |-> level, control |-> kept[i], source |-> SourceOf(p)]]

ControlsOfBrief(p) ==
  ControlsOfLevel(p, "engineering") \o ControlsOfLevel(p, "administrative")
    \o ControlsOfLevel(p, "ppe")

RECURSIVE FlatMapControls(_)
FlatMapControls(ps) ==
  IF ps = <<>> THEN <<>> ELSE ControlsOfBrief(Head(ps)) \o FlatMapControls(Tail(ps))

DedupKey(x) ==
  x.level \o "::" \o x.control \o "::"
    \o (IF x.source.code # "" THEN x.source.code ELSE x.source.title)

RECURSIVE DedupControls(_, _, _)
DedupControls(rest, seen, out) ==
  IF rest = <<>>
  THEN out
  ELSE LET k == DedupKey(Head(rest))
       IN IF k \in seen
          THEN DedupControls(Tail(rest), seen, out)
          ELSE DedupControls(Tail(rest), seen \cup {k}, Append(out, Head(rest)))

MapSeq(s, Op(_)) == [i \in 1..Len(s) |-> Op(s[i])]

buildProcedureInfluence(procedure_refs) ==
  LET normalized == MapSeq(procedure_refs, normalizeProcedureRef)
      applied == SelectSeq(normalized, IsApplied)
      notParseable == SelectSeq(normalized, IsNotParseable)
  IN [applied |-> MapSeq(applied, SourceOf),
      not_parseable |-> MapSeq(notParseable, SourceOf),
      derived_controls |-> DedupControls(FlatMapControls(applied), {}, <<>>)]

(***************************************************************************)
(* Leccion aprendida: extraccion                                           *)
(***************************************************************************)
\* The value of a field that holds no object (absent, null or a primitive).
NoObject == [none |-> TRUE]

\* Only the first key of the lookup chain (body.lesson_learned_brief) is
\* modelled; the other keys are alternative spellings of the same input.
extractLessonLearnedRef(body) ==
  LET ll == body.lesson_learned_brief
  IN IF ll = NoObject
     THEN NoObject
     ELSE LET normalized ==
                normalizeProcedureRef(
                  [ll EXCEPT !.origin = pickString(ll.origin, "Leccion aprendida"),
                             !.title = pickString(ll.title, "Leccion aprendida"),
                             !.parseable = "true"])
              b == normalized.brief
              hasUsefulBrief ==
                \/ b.scope # ""
                \/ Len(b.mandatory_permits) > 0
                \/ Len(b.mandatory_steps) > 0
                \/ Len(b.stop_work) > 0
                \/ Len(b.restrictions) > 0
                \/ Len(b.critical_controls.engineering) > 0
                \/ Len(b.critical_controls.administrative) > 0
                \/ Len(b.critical_controls.ppe) > 0
          IN IF hasUsefulBrief THEN normalized ELSE NoObject

(***************************************************************************)
(* Checklist Estrella                                                      *)
(***************************************************************************)
DecisionHints == {"STOP", "REVIEW_REQUIRED", "CONTINUE"}

Priorities == {"critical", "high", "medium", "low"}

Categories == {"administrative", "engineering", "ppe"}

\* supMap: label, field of authorizations.supervisor.checks, text of the item.
supMap ==
  << <<"Claridad de etapas", "stagesClarity",
       "Tengo claridad de todas las etapas del trabajo a ejecutar">>,
     <<"Peligros controlados", "hazardsControlled",
       "Se han identificado y controlado todos los peligros y es seguro comenzar">>,
     <<"Aislamiento confirmado", "isolationConfirmed",
       "He confirmado el aislamiento de todas las fuentes de energias peligrosas">>,
     <<"Comunicacion acordada", "commsAgreed",
       "Se han acordado responsabilidades y canales de comunicacion del equipo">>,
     <<"Herramientas OK", "toolsOk",
       "Cuento con herramientas y equipos necesarios en buenas condiciones">> >>

EmptyChecks ==
  [stagesClarity |-> Undefined, hazardsControlled |-> Undefined,
   isolationConfirmed |-> Undefined, commsAgreed |-> Undefined, toolsOk |-> Undefined]

\* estrella_format absent, null or not an object reads as this record.  The
\* field checks is the object at authorizations.supervisor.checks.
EmptyEstrella ==
  [incidentsReference |-> Undefined, otherCompanies |-> Undefined,
   dangerTypes |-> <<>>, environmentDangers |-> <<>>, emergencies |-> <<>>,
   safetyEquipment |-> <<>>, lifeSavingRules |-> <<>>,
   checks |-> EmptyChecks, elaborationDate |-> Undefined, executionDate |-> Undefined]

PPE_MAP ==
  << <<"Casco", "Uso obligatorio de casco de seguridad.">>,
     <<"Guantes", "Uso obligatorio de guantes adecuados a la tarea.">>,
     <<"Botas de seguridad", "Uso obligatorio de botas de seguridad.">>,
     <<"Gafas de Seguridad", "Uso obligatorio de gafas de seguridad.">>,
     <<"Proteccion Auditiva", "Uso obligatorio de proteccion auditiva segun niveles de ruido.">>,
     <<"Proteccion Respiratoria", "Uso obligatorio de proteccion respiratoria segun exposicion.">>,
     <<"Arnes de Seguridad",
       "Uso de arnes y sistema anticaidas certificado (si aplica trabajo en alturas).">> >>

PpeControlsFor(k) ==
  LET hits == SelectSeq(PPE_MAP, LAMBDA e : e[1] = k)
  IN [i \in 1..Len(hits) |-> hits[i][2]]

RECURSIVE PpeDerived(_)
PpeDerived(safetyEquipment) ==
  IF safetyEquipment = <<>>
  THEN <<>>
  ELSE PpeControlsFor(Head(safetyEquipment)) \o PpeDerived(Tail(safetyEquipment))

SupervisorMissing(checks) ==
  LET vals == [i \in 1..Len(supMap) |-> pickString(checks[supMap[i][2]], "")]
      idx == SelectSeq([i \in 1..Len(supMap) |-> i], LAMBDA i : vals[i] = "")
  IN [j \in 1..Len(idx) |->
        "Falta seleccion en verificacion del supervisor: " \o supMap[idx[j]][1] \o "."]

\* Only the first item answered NO.
SupervisorNegativeFirst(checks) ==
  LET vals == [i \in 1..Len(supMap) |-> pickString(checks[supMap[i][2]], "")]
      all == SelectSeq([i \in 1..Len(supMap) |-> i], LAMBDA i : vals[i] = "NO")
  IN IF all = <<>> THEN <<>> ELSE <<Head(all)>>

SupervisorNegative(checks) ==
  LET vals == [i \in 1..Len(supMap) |-> pickString(checks[supMap[i][2]], "")]
  IN SelectSeq([i \in 1..Len(supMap) |-> i], LAMBDA i : vals[i] = "NO")

ActionIncidents ==
  [priority |-> "high", category |-> "administrative",
   action |-> "Revisar lecciones aprendidas/incidentes similares, definir controles especificos y socializarlos en charla preoperacional.",
   evidence |-> <<"Incidentes en trabajos similares = Si">>]

ActionOtherCompanies ==
  [priority |-> "high", category |-> "administrative",
   action |-> "Asegurar coordinacion inter-contratistas: roles, responsable de area, permisos, comunicacion, y control de interferencias (SIMOPS).",
   evidence |-> <<"Otras companias = Si">>]

ActionHeightCoherence ==
  [priority |-> "medium", category |-> "administrative",
   action |-> "Validar coherencia: se marco 'Trabajo en alturas' pero la condicion 'Trabajo en alturas' no esta activa. Confirmar si aplica y ajustar.",
   evidence |-> <<"Tipos de peligros">>]

ActionEmergencies ==
  [priority |-> "medium", category |-> "administrative",
   action |-> "Confirmar escenarios de emergencia aplicables (medica, incendio, H2S, ambiental, etc.) y verificar plan de respuesta (rutas, puntos, comunicacion).",
   evidence |-> <<"Emergencias sin seleccion">>]

ActionLifeSavingRules ==
  [priority |-> "medium", category |-> "administrative",
   action |-> "Seleccionar y verificar 'Acuerdos de Vida' aplicables antes de iniciar. Si algun control no esta implementado -> detener y solicitar ayuda.",
   evidence |-> <<"Acuerdos de vida sin seleccion">>]

HasReviewAction(actions) ==
  \E i \in 1..Len(actions) : actions[i].priority \in {"high", "medium"}

deriveChecklistDeterministic(estrella, body) ==
  LET s == estrella
      incidentsReference == normalizeYesNo(s.incidentsReference)
      otherCompanies == normalizeYesNo(s.otherCompanies)
      dangerTypes == safeArrayStrings(s.dangerTypes)
      environmentDangers == safeArrayStrings(s.environmentDangers)
      emergencies == safeArrayStrings(s.emergencies)
      safetyEquipment == safeArrayStrings(s.safetyEquipment)
      lifeSavingRules == safeArrayStrings(s.lifeSavingRules)
      negative == SupervisorNegative(s.checks)
      criticalFails ==
        [j \in 1..Len(negative) |-> "Supervisor marco NO: " \o supMap[negative[j]][1] \o "."]
      \* the source puts the item text between double quotes
      criticalActions ==
        [j \in 1..Len(negative) |->
           [priority |-> "critical", category |-> "administrative",
            action |-> "Detener el trabajo y corregir el item: " \o supMap[negative[j]][3]
                         \o ". Revalidar antes de reiniciar.",
            evidence |-> <<"Checklist supervisor">>]]
      missing ==
        SupervisorMissing(s.checks)
          \o IfThen(pickString(s.elaborationDate, "") = "",
                    "Falta fecha de elaboracion (Formato Estrella).")
          \o IfThen(pickString(s.executionDate, "") = "",
                    "Falta fecha de ejecucion (Formato Estrella).")
          \o IfThen(incidentsReference = "",
                    "No se respondio: Incidentes en trabajos similares (Si/No).")
          \o IfThen(otherCompanies = "",
                    "No se respondio: Involucra personal de otras companias (Si/No).")
      actions ==
        criticalActions
          \o IfThen(incidentsReference = "Si", ActionIncidents)
          \o IfThen(otherCompanies = "Si", ActionOtherCompanies)
          \o IfThen("Trabajo en alturas" \in Range(dangerTypes) /\ ~body.workAtHeight,
                    ActionHeightCoherence)
          \o IfThen(Len(emergencies) = 0, ActionEmergencies)
          \o IfThen(Len(lifeSavingRules) = 0, ActionLifeSavingRules)
      adminDerived ==
        IfThen("Senalizacion/Conos/Limitacion de Area" \in Range(safetyEquipment),
               "Delimitar y senalizar el area de trabajo; controlar accesos.")
          \o IfThen("Medicion de gases" \in Range(safetyEquipment),
                    "Realizar medicion de gases previa y continua cuando aplique; registrar resultados.")
          \o IfThen("Extintores / Matafuegos" \in Range(safetyEquipment),
                    "Verificar extintor disponible/operativo y permiso de trabajo en caliente cuando aplique.")
          \o IfThen("Lockout/Layout/ EMN" \in Range(safetyEquipment),
                    "Aplicar aislamiento de energias peligrosas (LOTO) y verificacion de energia cero si aplica.")
      decision_hint ==
        IF Len(criticalFails) > 0 THEN "STOP"
        ELSE IF Len(missing) > 0 \/ HasReviewAction(actions) THEN "REVIEW_REQUIRED"
        ELSE "CONTINUE"
  IN [decision_hint |-> decision_hint,
      missing |-> missing,
      critical_fails |-> criticalFails,
      derived_controls |->
        [administrative |-> adminDerived, ppe |-> PpeDerived(safetyEquipment),
         engineering |-> <<>>],
      actions |-> actions,
      snapshot |->
        [incidentsReference |-> incidentsReference,
         otherCompanies |-> otherCompanies,
         dangerTypes |-> dangerTypes,
         environmentDangers |-> environmentDangers,
         emergencies |-> emergencies,
         safetyEquipment |-> safetyEquipment,
         lifeSavingRules |-> lifeSavingRules,
         supervisorChecks |->
           [k \in DOMAIN s.checks |-> pickString(s.checks[k], "")]]]

\* Reads of a key of an object of untrusted shape.
GetString(o, k) == IF k \in DOMAIN o THEN o[k] ELSE Undefined

GetArray(o, k) == IF k \in DOMAIN o THEN o[k] ELSE <<>>

\* { ...a, ...b }
\* A spread in which the keys of the first object win.
SpreadKeepFirst(a, b) ==
  [k \in DOMAIN a \cup DOMAIN b |-> IF k \in DOMAIN a THEN a[k] ELSE b[k]]

Spread(a, b) ==
  [k \in (DOMAIN a) \cup (DOMAIN b) |-> IF k \in DOMAIN b THEN b[k] ELSE a[k]]

\* One entry of an actions array: priority, category and action are strings
\* or Undefined, evidence is an array.
SanitizeAction(a) ==
  [priority |-> IF a.priority \in Priorities THEN a.priority ELSE "medium",
   category |-> IF a.category \in Categories THEN a.category ELSE "administrative",
   action |-> pickString(a.action, ""),
   evidence |-> safeArrayStrings(a.evidence)]

\* x is NoObject when it is null or a primitive.  The keys actions,
\* derived_controls and snapshot, when present, hold an array, an object and
\* an object.
sanitizeChecklistActions(x, fallback) ==
  LET o == IF x # NoObject THEN x ELSE fallback
      hint == GetString(o, "decision_hint")
      dc == IF "derived_controls" \in DOMAIN o
            THEN o.derived_controls
            ELSE [engineering |-> <<>>, administrative |-> <<>>, ppe |-> <<>>]
  IN [decision_hint |-> IF hint \in DecisionHints THEN hint ELSE fallback.decision_hint,
      missing |-> safeArrayStrings(GetArray(o, "missing")),
      critical_fails |-> safeArrayStrings(GetArray(o, "critical_fails")),
      derived_controls |->
        [engineering |-> safeArrayStrings(dc.engineering),
         administrative |-> safeArrayStrings(dc.administrative),
         ppe |-> safeArrayStrings(dc.ppe)],
      actions |->
        IF "actions" \in DOMAIN o
        THEN SelectSeq(MapSeq(o.actions, SanitizeAction), LAMBDA a : trim(a.action) # "")
        ELSE fallback.actions,
      snapshot |-> IF "snapshot" \in DOMAIN o THEN o.snapshot ELSE fallback.snapshot]

(***************************************************************************)
(* IA opcional para checklist                                              *)
(***************************************************************************)
\* The client is built at module load with the key asserted non-null, so a
\* handler that runs has the key.
OPENAI_API_KEY == TRUE

hasSignal(base) ==
  Len(base.actions) > 0 \/ Len(base.missing) > 0 \/ Len(base.critical_fails) > 0

\* Whether enrichChecklistWithAI calls the service at all.
EnrichmentCalls(base) == OPENAI_API_KEY /\ hasSignal(base)

\* The part of enrichChecklistWithAI after the service has answered.  out is
\* the answer: parse = "invalid" when JSON.parse throws, "primitive" when it
\* gives null, a number, a string or a boolean, "object" when it gives the
\* object out.value.  Setting a property on null or on a primitive throws a
\* TypeError inside the try block, which returns base.
enrichChecklistWithAI(base, out) ==
  LET forceStop == Len(base.critical_fails) > 0
      forceReview == Len(base.critical_fails) = 0 /\ Len(base.missing) > 0
  IN IF out.parse = "invalid"
     THEN base
     ELSE IF out.parse = "primitive"
     THEN IF forceStop \/ forceReview THEN base ELSE sanitizeChecklistActions(NoObject, base)
     ELSE LET parsed ==
                IF forceStop THEN Spread(out.value, [decision_hint |-> "STOP"])
                ELSE IF forceReview
                THEN Spread(out.value, [decision_hint |-> "REVIEW_REQUIRED"])
                ELSE out.value
          IN sanitizeChecklistActions(parsed, base)

(***************************************************************************)
(* Fallbacks (cuando el modelo devuelve hazards/steps vacios)              *)
(***************************************************************************)
HazardLifting ==
  "Izaje / manejo de cargas: golpeado por carga, atrapamiento, caida de carga, zona de exclusion deficiente."
HazardHotWork ==
  "Trabajo en caliente: incendio/quemaduras, chispas/proyeccion, atmosferas inflamables, exposicion a humos."
HazardHeight ==
  "Trabajo en alturas: caida a distinto nivel, caida de objetos, anclajes/linea de vida inadecuados."
HazardVisibility ==
  "Visibilidad baja: riesgo de atropellamiento/colision y perdida de control del area."
HazardLighting ==
  "Iluminacion deficiente: errores operacionales, tropiezos/caidas, colisiones."
HazardTerrain ==
  "Superficie resbalosa/inestable: caidas al mismo nivel, perdida de estabilidad de equipos."
HazardStorm ==
  "Tormenta electrica: exposicion a descarga, perdida de control de tareas expuestas."
HazardWind ==
  "Viento fuerte: oscilacion de cargas y perdida de estabilidad/ control."
HazardTriggers ==
  "Condiciones criticas detectadas (STOP/REVIEW): ver auto_triggers y criterios de Stop Work."
HazardGeneral ==
  "Riesgos generales de operacion: interaccion hombre-maquina, energias peligrosas, orden y aseo, y condiciones del entorno."

\* hazards = mergeUnique(hazards, [extra]) under the condition c
MergeIf(c, hazards, extra) == IF c THEN mergeUnique(hazards, <<extra>>) ELSE hazards

\* Ultimo recurso: nunca devolver vacio
NeverEmpty(hazards) == IF Len(hazards) = 0 THEN <<HazardGeneral>> ELSE hazards

buildFallbackHazards(checklist, tasks, environment, autoTriggers) ==
  NeverEmpty(
    MergeIf(Len(autoTriggers) > 0,
    MergeIf(environment.wind = "Fuerte" \/ environment.weather = "Viento fuerte",
    MergeIf(environment.weather = "Tormenta electrica",
    MergeIf(environment.terrain \in {"Humedo/Resbaloso", "Barro"},
    MergeIf(environment.lighting = "Deficiente",
    MergeIf(environment.visibility = "Baja",
    MergeIf(tasks.workAtHeight,
    MergeIf(tasks.hotWork,
    MergeIf(tasks.lifting,
      mergeUnique(safeArrayStrings(GetArray(checklist.snapshot, "dangerTypes")),
                  safeArrayStrings(GetArray(checklist.snapshot, "environmentDangers"))),
      HazardLifting),
      HazardHotWork),
      HazardHeight),
      HazardVisibility),
      HazardLighting),
      HazardTerrain),
      HazardStorm),
      HazardWind),
      HazardTriggers))

Take(s, n) == SubSeq(s, 1, IF Len(s) < n THEN Len(s) ELSE n)

StepBriefing ==
  "1) Charla preoperacional, roles, comunicacion y verificacion de competencias."
StepInspection ==
  "2) Inspeccion del area, demarcacion, control de accesos y verificacion de condiciones (ambiente/orden y aseo)."
StepEquipment ==
  "3) Verificacion de equipos/herramientas y controles criticos antes de iniciar (incluye EPP)."
StepLifting ==
  "4) Ejecucion de izaje/manejo de carga con control de zona de exclusion y comunicacion senalero-operador."
StepHotWork ==
  "4) Ejecucion de trabajo en caliente con control de ignicion y vigilancia de incendio."
StepHeight ==
  "4) Ejecucion de trabajo en alturas con sistema anticaidas y control de caida de objetos."
StepGeneric ==
  "4) Ejecucion del trabajo segun plan y controles definidos."
StepCloseout ==
  "5) Cierre del trabajo: retiro de demarcacion, housekeeping, verificacion final y registro de novedades."

buildFallbackSteps(meta, hazards, controls, tasks, checklist) ==
  LET topHazards == Take(hazards, 6)
      topControls ==
        Take(mergeUnique(mergeUnique(controls.engineering, controls.administrative),
                         controls.ppe), 8)
      actionTexts == [i \in 1..Len(checklist.actions) |-> checklist.actions[i].action]
  IN << [step |-> StepBriefing,
         hazards |-> topHazards,
         controls |->
           mergeUnique(
             <<"Definir roles, responsable del trabajo, canales de comunicacion y senales (incluye senalero si aplica).">>,
             Take(safeArrayStrings(actionTexts), 3))],
        [step |-> StepInspection,
         hazards |-> topHazards,
         controls |->
           mergeUnique(
             <<"Delimitar y senalizar el area; establecer zonas de exclusion y rutas seguras.",
               "Verificar iluminacion/visibilidad/terreno y ajustar controles antes de iniciar.">>,
             topControls)],
        [step |-> StepEquipment,
         hazards |-> topHazards,
         controls |->
           mergeUnique(
             <<"Inspeccion preoperacional de equipos/herramientas; detener si hay defectos criticos.">>,
             topControls)] >>
     \o IfThen(tasks.lifting,
          [step |-> StepLifting,
           hazards |->
             mergeUnique(topHazards,
               <<"Caida de carga, golpeado por carga, atrapamiento, interaccion con equipos moviles.">>),
           controls |->
             mergeUnique(
               <<"Aplicar plan de izaje (si aplica), verificar accesorios, puntos de izaje y capacidad; usar senalero competente.">>,
               topControls)])
     \o IfThen(tasks.hotWork,
          [step |-> StepHotWork,
           hazards |->
             mergeUnique(topHazards,
               <<"Incendio/quemaduras, chispas/proyeccion, atmosfera inflamable, humos.">>),
           controls |->
             mergeUnique(
               <<"Validar permiso de trabajo en caliente (si aplica), extintor operativo, retirar combustibles y mantener vigilancia de fuego.">>,
               topControls)])
     \o IfThen(tasks.workAtHeight,
          [step |-> StepHeight,
           hazards |->
             mergeUnique(topHazards,
               <<"Caida a distinto nivel, anclajes inadecuados, caida de objetos.">>),
           controls |->
             mergeUnique(
               <<"Verificar anclajes/linea de vida, plan de rescate (si aplica) y uso correcto del arnes/sistema anticaidas.">>,
               topControls)])
     \o IfThen(~tasks.lifting /\ ~tasks.hotWork /\ ~tasks.workAtHeight,
          [step |-> StepGeneric, hazards |-> topHazards, controls |-> topControls])
     \o << [step |-> StepCloseout,
            hazards |->
              <<"Exposicion residual por energias/orden y aseo, interaccion con equipos en retiro.">>,
            controls |->
              <<"Asegurar condicion segura final del area, retiro controlado de senalizacion y entrega del sitio.",
                "Registrar observaciones/incidentes/casi-incidentes y controles implementados.",
                "Registrar ATS: " \o meta.title \o " | " \o meta.location \o " | " \o meta.date
                  \o " | Turno: " \o meta.shift>>] >>

(***************************************************************************)
(* ROUTE: POST of generate-ats                                             *)
(***************************************************************************)
generalCriteria ==
  <<"Condiciones meteorologicas severas (tormenta electrica, vientos fuertes) que comprometan el control de la tarea.",
    "Visibilidad/iluminacion insuficiente para operar de forma segura.",
    "Superficie/terreno inestable o resbaloso sin mitigacion efectiva.",
    "Fallas de equipos criticos, ausencia de permisos/aislamientos, o falta de personal competente.",
    "Cualquier condicion insegura que no pueda controlarse inmediatamente.">>

MissingLesson ==
  "Incidentes en trabajos similares = Si, pero no se adjunto leccion aprendida (lesson_learned_brief)."

ActionAttachLesson ==
  [priority |-> "high", category |-> "administrative",
   action |-> "Adjuntar y revisar una Leccion Aprendida (procesada con /api/lesson-learned-brief) antes de iniciar. Socializar controles y validar aplicabilidad.",
   evidence |-> <<"Incidentes = Si", "Leccion aprendida pendiente">>]

TasksOf(body) ==
  [lifting |-> body.lifting, hotWork |-> body.hotWork, workAtHeight |-> body.workAtHeight]

\* A variant of the precondition below that tests whether the request
\* carries a lesson-learned object, not whether the object has content.
LessonAbsent(body) ==
  LET checklistBase == deriveChecklistDeterministic(body.estrella_format, body)
  IN /\ normalizeYesNo(checklistBase.snapshot.incidentsReference) = "Si"
     /\ body.lesson_learned_brief = NoObject

\* The lesson-learned precondition: incidents answered yes and no usable
\* lesson-learned brief in the request.
LessonMissing(body) ==
  LET checklistBase == deriveChecklistDeterministic(body.estrella_format, body)
  IN /\ normalizeYesNo(checklistBase.snapshot.incidentsReference) = "Si"
     /\ extractLessonLearnedRef(body) = NoObject

\* A variant of the flexible mode below that adds the action and raises the
\* hint, and adds no missing entry.
FlexibleChecklistActionOnly(checklistBase) ==
  [checklistBase EXCEPT
     !.actions = checklistBase.actions \o <<ActionAttachLesson>>,
     !.decision_hint = IF checklistBase.decision_hint = "CONTINUE"
                       THEN "REVIEW_REQUIRED"
                       ELSE checklistBase.decision_hint]

\* Modo flexible: the checklist seed after the handler has added the missing
\* entry and the high-priority action.
FlexibleChecklist(checklistBase) ==
  [checklistBase EXCEPT
     !.missing = mergeUnique(checklistBase.missing, <<MissingLesson>>),
     !.actions = checklistBase.actions \o <<ActionAttachLesson>>,
     !.decision_hint = IF checklistBase.decision_hint = "CONTINUE"
                       THEN "REVIEW_REQUIRED"
                       ELSE checklistBase.decision_hint]

\* Everything the handler computes before it calls the drafting service.
Seeds(body, requireLesson) ==
  LET environment == normalizeEnvironment(body.environment)
      derived == deriveChecklistDeterministic(body.estrella_format, body)
      lessonLearnedRef == extractLessonLearnedRef(body)
      checklistBase ==
        IF LessonMissing(body) /\ ~requireLesson THEN FlexibleChecklist(derived) ELSE derived
      procedure_refs_combined ==
        IF lessonLearnedRef # NoObject
        THEN body.procedure_refs \o <<lessonLearnedRef>>
        ELSE body.procedure_refs
      procedure_refs == MapSeq(procedure_refs_combined, normalizeProcedureRef)
      autoTriggersEnv == computeStopWorkTriggers([body EXCEPT !.environment = environment])
      lessonStopWork ==
        IF lessonLearnedRef # NoObject
        THEN safeArrayStrings(lessonLearnedRef.brief.stop_work)
        ELSE <<>>
  IN [environment |-> environment,
      checklistBase |-> checklistBase,
      procedure_refs |-> procedure_refs,
      procedureInfluence |-> buildProcedureInfluence(procedure_refs),
      autoTriggers |->
        mergeUnique(autoTriggersEnv,
                    [i \in 1..Len(lessonStopWork) |-> "Leccion aprendida: " \o lessonStopWork[i]]),
      meta |->
        [title |-> pickString(body.jobTitle, "ATS"),
         company |-> pickString(body.company, ""),
         location |-> pickString(body.location, ""),
         date |-> pickString(body.date, ""),
         shift |-> pickString(body.shift, "")]]

\* The document the handler substitutes when JSON.parse of the draft throws.
FallbackDocument(seeds) ==
  [meta |-> seeds.meta,
   environment |-> seeds.environment,
   hazards |-> <<>>,
   controls |-> [engineering |-> <<>>, administrative |-> <<>>, ppe |-> <<>>],
   steps |-> <<>>,
   stop_work |->
     [decision |-> IF Len(seeds.autoTriggers) > 0 THEN "REVIEW_REQUIRED" ELSE "CONTINUE",
      auto_triggers |-> seeds.autoTriggers,
      criteria |-> generalCriteria,
      rationale |-> "Salida no parseable; revisar."],
   procedure_refs_used |-> seeds.procedureInfluence.applied,
   procedure_influence |-> seeds.procedureInfluence,
   checklist_actions |-> seeds.checklistBase]

\* A truthy primitive in the place of an object.
Primitive == [primitive |-> TRUE]

EmptyObject == <<>>

GetObject(o, k) == IF k \in DOMAIN o THEN o[k] ELSE EmptyObject

SanitizeStep(st) ==
  [step |-> pickString(st.step, ""),
   hazards |-> safeArrayStrings(st.hazards),
   controls |-> safeArrayStrings(st.controls)]

DecisionValues == {"STOP", "CONTINUE", "REVIEW_REQUIRED"}

\* The draft as the handler uses it: the parsed object, or the fallback
\* document when the text does not parse.
ParsedDraft(seeds, out) ==
  IF out.parse = "invalid" THEN FallbackDocument(seeds) ELSE out.value

\* Assigning a property of null or of a primitive throws a TypeError (the
\* module is strict-mode code): the parsed draft itself, or its stop_work.
PostProcessThrows(out) ==
  \/ out.parse = "primitive"
  \/ /\ out.parse = "object"
     /\ "stop_work" \in DOMAIN out.value
     /\ out.value.stop_work = Primitive

\* ats.stop_work after the trigger guardrails.
StopWorkAfterTriggers(draftStopWork, autoTriggers) ==
  LET d0 == GetString(draftStopWork, "decision")
      r0 == pickString(GetString(draftStopWork, "rationale"),
                       IF Len(autoTriggers) > 0
                       THEN "Condiciones criticas detectadas; requiere revision."
                       ELSE "Sin condiciones criticas detectadas.")
      forced == Len(autoTriggers) > 0 /\ d0 = "CONTINUE"
      d1 == IF forced THEN "REVIEW_REQUIRED" ELSE d0
      r1 == IF forced
            THEN (IF r0 # "" THEN r0 \o " " ELSE "")
                   \o "Hay condiciones criticas detectadas automaticamente; se requiere revision y control antes de continuar."
            ELSE r0
      d2 == IF Len(autoTriggers) = 0 /\ d1 \notin DecisionValues THEN "CONTINUE" ELSE d1
  IN [decision |-> d2, auto_triggers |-> autoTriggers, criteria |-> generalCriteria,
      rationale |-> r1]

\* Post-procesado deterministico, up to the call of enrichChecklistWithAI.
PostProcessDraft(seeds, out) ==
  LET a == ParsedDraft(seeds, out)
      m == GetObject(a, "meta")
      c == GetObject(a, "controls")
  IN [meta |->
        [title |-> pickString(GetString(m, "title"), seeds.meta.title),
         company |-> pickString(GetString(m, "company"), seeds.meta.company),
         location |-> pickString(GetString(m, "location"), seeds.meta.location),
         date |-> pickString(GetString(m, "date"), seeds.meta.date),
         shift |-> pickString(GetString(m, "shift"), seeds.meta.shift)],
      environment |->
        normalizeEnvironment(IF "environment" \in DOMAIN a THEN a.environment
                             ELSE seeds.environment),
      hazards |-> safeArrayStrings(GetArray(a, "hazards")),
      controls |->
        [engineering |-> safeArrayStrings(GetArray(c, "engineering")),
         administrative |-> safeArrayStrings(GetArray(c, "administrative")),
         ppe |-> safeArrayStrings(GetArray(c, "ppe"))],
      steps |-> MapSeq(GetArray(a, "steps"), SanitizeStep),
      stop_work |-> StopWorkAfterTriggers(GetObject(a, "stop_work"), seeds.autoTriggers),
      procedure_refs_used |-> seeds.procedureInfluence.applied,
      procedure_influence |-> seeds.procedureInfluence,
      checklist_actions |->
        IF "checklist_actions" \in DOMAIN a THEN a.checklist_actions ELSE seeds.checklistBase]

\* Checklist + IA opcional: the merged checklist with its final guardrails.
MergedChecklist(checklistBase, checklistFromModel, enriched) ==
  LET merged == sanitizeChecklistActions(Spread(checklistFromModel, enriched), checklistBase)
      h1 == IF Len(checklistBase.critical_fails) > 0 THEN "STOP" ELSE merged.decision_hint
      h2 == IF /\ Len(checklistBase.critical_fails) = 0
               /\ Len(checklistBase.missing) > 0
               /\ h1 = "CONTINUE"
            THEN "REVIEW_REQUIRED"
            ELSE h1
  IN [merged EXCEPT !.decision_hint = h2]

ControlsOf(procDerived, level) ==
  LET hits == SelectSeq(procDerived, LAMBDA x : x.level = level)
  IN [i \in 1..Len(hits) |-> hits[i].control]

\* Controles derivados del checklist, then de procedimientos/leccion aprendida.
MergeControls(controls, mergedChecklist, procedureInfluence) ==
  LET derived == mergedChecklist.derived_controls
      procDerived == procedureInfluence.derived_controls
      admin1 == mergeUnique(controls.administrative, safeArrayStrings(derived.administrative))
      ppe1 == mergeUnique(controls.ppe, safeArrayStrings(derived.ppe))
      eng1 == mergeUnique(controls.engineering, safeArrayStrings(derived.engineering))
  IN [administrative |->
        mergeUnique(admin1, safeArrayStrings(ControlsOf(procDerived, "administrative"))),
      ppe |-> mergeUnique(ppe1, safeArrayStrings(ControlsOf(procDerived, "ppe"))),
      engineering |->
        mergeUnique(eng1, safeArrayStrings(ControlsOf(procDerived, "engineering")))]

AppendSentence(rationale, sentence) ==
  (IF rationale # "" THEN rationale \o " " ELSE "") \o sentence

\* A variant of the adjustment below that takes the checklist hint as the
\* decision, whatever the decision was.
StopWorkTakesHint(stop_work, hint) ==
  IF hint \in DecisionValues /\ stop_work.decision # hint
  THEN [stop_work EXCEPT
          !.decision = hint,
          !.rationale = AppendSentence(stop_work.rationale,
            "Checklist corporativo (Formato Estrella) requiere verificacion adicional antes de continuar.")]
  ELSE stop_work

\* Ajustar STOP WORK segun checklist.
StopWorkAfterChecklist(stop_work, hint) ==
  IF hint = "STOP" /\ stop_work.decision # "STOP"
  THEN [stop_work EXCEPT
          !.decision = "STOP",
          !.rationale = AppendSentence(stop_work.rationale,
            "Checklist corporativo (Formato Estrella) indica STOP por verificacion negativa o control critico no cumplido.")]
  ELSE IF hint = "REVIEW_REQUIRED" /\ stop_work.decision = "CONTINUE"
  THEN [stop_work EXCEPT
          !.decision = "REVIEW_REQUIRED",
          !.rationale = AppendSentence(stop_work.rationale,
            "Checklist corporativo (Formato Estrella) requiere verificacion adicional antes de continuar.")]
  ELSE stop_work

\* critical_fails -> auto_triggers
AppendCriticalFails(auto_triggers, mergedChecklist) ==
  LET cf == safeArrayStrings(mergedChecklist.critical_fails)
  IN IF Len(cf) > 0
     THEN mergeUnique(auto_triggers, [i \in 1..Len(cf) |-> "Checklist: " \o cf[i]])
     ELSE auto_triggers

MinHazards == 3

MinSteps == 4

MaxHazards == 12

\* FIX COMPLETITUD 1) hazards fallback
HazardsIfEmpty(hazards, fallback) == IF Len(hazards) = 0 THEN fallback ELSE hazards

\* FIX COMPLETITUD 2) steps fallback
StepsIfEmpty(steps, fallback) == IF Len(steps) = 0 THEN fallback ELSE steps

\* FIX COMPLETITUD 3) endurecer minimos, hazards
HazardsMinimum(hazards, fallback) ==
  IF Len(hazards) < MinHazards THEN Take(mergeUnique(hazards, fallback), MaxHazards) ELSE hazards

\* FIX COMPLETITUD 3) endurecer minimos, steps
StepsMinimum(steps, fallback) == IF Len(steps) < MinSteps THEN fallback ELSE steps

\* FIX COMPLETITUD: steps 1) to 4) on the document whose checklist, controls
\* and stop_work are final; fallbackHazards is buildFallbackHazards of it.
Completeness(body, ats, fallbackHazards) ==
  [ats EXCEPT
     !.hazards = HazardsMinimum(HazardsIfEmpty(ats.hazards, fallbackHazards), fallbackHazards),
     !.steps =
       MapSeq(
         StepsMinimum(
           StepsIfEmpty(ats.steps,
             buildFallbackSteps(ats.meta, HazardsIfEmpty(ats.hazards, fallbackHazards),
                                ats.controls, TasksOf(body), ats.checklist_actions)),
           buildFallbackSteps(ats.meta,
             HazardsMinimum(HazardsIfEmpty(ats.hazards, fallbackHazards), fallbackHazards),
             ats.controls, TasksOf(body), ats.checklist_actions)),
         SanitizeStep)]

\* The checklist, the controls and the stop-work assessment of the document,
\* given the merged checklist.
ApplyChecklist(ats, mergedChecklist, procedureInfluence) ==
  [ats EXCEPT
     !.checklist_actions = mergedChecklist,
     !.controls = MergeControls(ats.controls, mergedChecklist, procedureInfluence),
     !.stop_work =
       [StopWorkAfterChecklist(ats.stop_work, mergedChecklist.decision_hint) EXCEPT
          !.auto_triggers = AppendCriticalFails(ats.stop_work.auto_triggers, mergedChecklist)]]

CompleteDocument(body, ats) ==
  Completeness(body, ats,
    buildFallbackHazards(ats.checklist_actions, TasksOf(body), ats.environment,
                         ats.stop_work.auto_triggers))

\* The handler from the return of enrichChecklistWithAI to the response.
Reconcile(body, seeds, ats, enriched) ==
  CompleteDocument(body,
    ApplyChecklist(ats,
      MergedChecklist(seeds.checklistBase, ats.checklist_actions, enriched),
      seeds.procedureInfluence))

(***************************************************************************)
(* Requests, drafts and enrichment answers of the model                    *)
(***************************************************************************)
MaxDraftHazards == 3

MaxDraftSteps == 4

AnsweredChecks ==
  [stagesClarity |-> "SI", hazardsControlled |-> "SI", isolationConfirmed |-> "SI",
   commsAgreed |-> "SI", toolsOk |-> "SI"]

LessonBrief ==
  [title |-> Undefined, code |-> "LL-01", origin |-> Undefined, parseable |-> "false",
   brief |->
     [EmptyBrief EXCEPT
        !.stop_work = <<"Detener si falla la comunicacion con el senalero">>,
        !.critical_controls =
          [engineering |-> <<>>, administrative |-> <<"Usar senalero dedicado">>,
           ppe |-> <<>>]]]

\* A lesson-learned object that carries no content.
EmptyLessonBrief ==
  [title |-> "Leccion sin contenido", code |-> Undefined, origin |-> Undefined,
   parseable |-> Undefined, brief |-> EmptyBrief]

\* (answer to incidents in similar work, lesson-learned brief of the request)
IncidentCases ==
  {<<"No", NoObject>>, <<"Si", NoObject>>, <<"Si", LessonBrief>>, <<"Yes", EmptyLessonBrief>>}

Requests ==
  { [environment |-> [EmptyEnvironment EXCEPT !.visibility = visibility],
     lifting |-> lifting, hotWork |-> FALSE, workAtHeight |-> FALSE,
     estrella_format |->
       [incidentsReference |-> incident[1], otherCompanies |-> "No",
        dangerTypes |-> <<>>, environmentDangers |-> <<>>, emergencies |-> emergencies,
        safetyEquipment |-> <<"Casco">>, lifeSavingRules |-> <<"Aislamiento de energias">>,
        checks |-> [AnsweredChecks EXCEPT !.stagesClarity = stagesClarity],
        elaborationDate |-> "2026-01-30", executionDate |-> "2026-01-31"],
     lesson_learned_brief |-> incident[2],
     procedure_refs |-> <<>>,
     jobTitle |-> "Izaje de bomba", company |-> Undefined, location |-> "Planta",
     date |-> "2026-01-31", shift |-> "Dia"] :
      visibility \in {Undefined, "Baja"},
      lifting \in BOOLEAN,
      stagesClarity \in {Undefined, "SI", "NO"},
      emergencies \in {<<>>, <<"Incendio">>},
      incident \in IncidentCases }

DraftHazards(n) == [i \in 1..n |-> "Peligro del borrador " \o ToString(i)]

DraftSteps(n) ==
  [i \in 1..n |->
     [step |-> "Paso del borrador " \o ToString(i),
      hazards |-> <<"Peligro del borrador 1">>, controls |-> <<>>]]

DraftRationale == "Justificacion del borrador."

\* Values of stop_work.decision in a draft; Undefined: the key is absent.
DraftDecisions == DecisionValues \cup {"PAUSE", Undefined}

DraftStopWork(decision) ==
  IF decision = Undefined
  THEN [rationale |-> DraftRationale]
  ELSE [decision |-> decision, rationale |-> DraftRationale]

DraftObject(decision, nHazards, nSteps) ==
  [hazards |-> DraftHazards(nHazards), steps |-> DraftSteps(nSteps),
   controls |-> [engineering |-> <<>>, administrative |-> <<"Control del borrador">>],
   stop_work |-> DraftStopWork(decision)]

DraftObjects ==
  {DraftObject(d, MaxDraftHazards, MaxDraftSteps) : d \in DraftDecisions}
    \cup {DraftObject("CONTINUE", h, st) : h \in 0..MaxDraftHazards, st \in 0..MaxDraftSteps}
    \cup {[stop_work |-> Primitive],
          [environment |-> [EmptyEnvironment EXCEPT !.lighting = "Deficiente"]],
          [hazards |-> <<"Caida de carga", " Caida de carga ", "Caida de carga">>],
          [checklist_actions |-> [decision_hint |-> "CONTINUE", critical_fails |-> <<>>]]}

\* Answers of the drafting service: a text that does not parse (empty text,
\* invalid JSON), JSON that is null or a primitive, and JSON objects.
DraftOutputs ==
  {[parse |-> "invalid", value |-> EmptyObject], [parse |-> "primitive", value |-> EmptyObject]}
    \cup {[parse |-> "object", value |-> v] : v \in DraftObjects}

EnrichmentObjects(base) ==
  {base,
   EmptyObject,
   [decision_hint |-> "CONTINUE"],
   [decision_hint |-> "STOP"],
   [decision_hint |-> "CONTINUE", critical_fails |-> <<"Fallo inventado">>],
   [decision_hint |-> "CONTINUE", missing |-> <<"Dato inventado">>, actions |-> <<>>],
   [actions |->
      <<[priority |-> "low", category |-> "ppe", action |-> "Accion de baja prioridad",
         evidence |-> <<>>],
        [priority |-> Undefined, category |-> Undefined, action |-> Undefined,
         evidence |-> <<>>]>>],
   [snapshot |-> [dangerTypes |-> <<"Ruido", " Ruido ", "Polvo">>]],
   [derived_controls |->
      [engineering |-> <<>>, administrative |-> <<>>, ppe |-> <<"Control de la IA">>]]}

\* Answers of the enrichment call for a checklist seed.
EnrichmentOutputs(base) ==
  {[parse |-> "invalid", value |-> EmptyObject], [parse |-> "primitive", value |-> EmptyObject]}
    \cup {[parse |-> "object", value |-> v] : v \in EnrichmentObjects(base)}

(***************************************************************************)
(* The handler as a state machine: one request, suspended at the drafting  *)
(* call and at the enrichment call.                                        *)
(***************************************************************************)
VARIABLES
  REQUIRE_LESSON_LEARNED_ON_INCIDENTS, \* configuration read at module load
  body,      \* the request
  pc,        \* "start", "drafting", "enriching", "done"; for a function studied
             \* on its own "start", "called", "again"
  draft,     \* the answer of the drafting service, NoObject before it
  ats,       \* the document after PostProcessDraft, NoObject before it
  enrich,    \* the answer of the enrichment call, NoObject when there is none
  response,  \* the response, NoObject before it
  refs,      \* an argument of buildProcedureInfluence
  influence, \* its result, NoObject before the call
  argument,  \* the argument of a function studied on its own
  result     \* its result, NoObject before the call

vars ==
  <<REQUIRE_LESSON_LEARNED_ON_INCIDENTS, body, pc, draft, ats, enrich, response,
    refs, influence, argument, result>>

seeds == Seeds(body, REQUIRE_LESSON_LEARNED_ON_INCIDENTS)

Rejected ==
  [status |-> 400, error |-> "Leccion aprendida requerida",
   details |-> "Marcaste 'Si' en incidentes en trabajos similares. Debes cargar una leccion aprendida y procesarla con /api/lesson-learned-brief antes de generar el ATS.",
   ats |-> NoObject]

\* The response of the catch of POST; msg is the message of what was thrown.
Failed(msg) ==
  [status |-> 500, error |-> "Error generando ATS", details |-> msg, ats |-> NoObject]

\* Messages of the errors client.responses.create rejects with.
RateLimitMessage == "429 Rate limit reached for requests"

ServiceErrors == {RateLimitMessage, "Connection error.", "Request timed out."}

\* Message of the TypeError of a property assignment on null.
TypeErrorMessage == "Cannot set properties of null (setting 'meta')"

Ok(doc) == [status |-> 200, error |-> "", ats |-> doc]

\* A call of the service that rejected with an error of message msg.
ServiceRejected(msg) == [parse |-> "rejected", value |-> msg]

Init ==
  /\ REQUIRE_LESSON_LEARNED_ON_INCIDENTS \in BOOLEAN
  /\ body \in Requests
  /\ pc = "start"
  /\ draft = NoObject
  /\ ats = NoObject
  /\ enrich = NoObject
  /\ response = NoObject
  /\ refs = <<>>
  /\ influence = NoObject
  /\ argument = NoObject
  /\ result = NoObject

\* Lesson learned required and missing: 400 before any call.
RejectMissingLesson ==
  /\ pc = "start"
  /\ LessonMissing(body) /\ REQUIRE_LESSON_LEARNED_ON_INCIDENTS
  /\ response' = Rejected
  /\ pc' = "done"
  /\ UNCHANGED <<argument, result, refs, influence, REQUIRE_LESSON_LEARNED_ON_INCIDENTS, body, draft, ats, enrich>>

\* The seeds are computed and the drafting service is called.
CallDraftingService ==
  /\ pc = "start"
  /\ ~(LessonMissing(body) /\ REQUIRE_LESSON_LEARNED_ON_INCIDENTS)
  /\ pc' = "drafting"
  /\ UNCHANGED <<argument, result, refs, influence, REQUIRE_LESSON_LEARNED_ON_INCIDENTS, body, draft, ats, enrich, response>>

\* client.responses.create rejects (unreachable, timeout, rate limit): catch.
DraftingServiceThrows(msg) ==
  /\ pc = "drafting"
  /\ draft' = ServiceRejected(msg)
  /\ response' = Failed(msg)
  /\ pc' = "done"
  /\ UNCHANGED <<argument, result, refs, influence, REQUIRE_LESSON_LEARNED_ON_INCIDENTS, body, ats, enrich>>

\* The draft arrives and post-processing throws: catch.
DraftPostProcessFails(out) ==
  /\ pc = "drafting"
  /\ PostProcessThrows(out)
  /\ draft' = out
  /\ response' = Failed(TypeErrorMessage)
  /\ pc' = "done"
  /\ UNCHANGED <<argument, result, refs, influence, REQUIRE_LESSON_LEARNED_ON_INCIDENTS, body, ats, enrich>>

\* The draft arrives, is post-processed, and enrichChecklistWithAI calls the
\* service.
DraftThenEnrichmentCall(out) ==
  /\ pc = "drafting"
  /\ ~PostProcessThrows(out)
  /\ EnrichmentCalls(seeds.checklistBase)
  /\ draft' = out
  /\ ats' = PostProcessDraft(seeds, out)
  /\ pc' = "enriching"
  /\ UNCHANGED <<argument, result, refs, influence, REQUIRE_LESSON_LEARNED_ON_INCIDENTS, body, enrich, response>>

\* The draft arrives, enrichChecklistWithAI returns the seed without a call,
\* and the handler runs to its response.
DraftThenRespond(out) ==
  /\ pc = "drafting"
  /\ ~PostProcessThrows(out)
  /\ ~EnrichmentCalls(seeds.checklistBase)
  /\ draft' = out
  /\ ats' = PostProcessDraft(seeds, out)
  /\ response' = Ok(Reconcile(body, seeds, ats', seeds.checklistBase))
  /\ pc' = "done"
  /\ UNCHANGED <<argument, result, refs, influence, REQUIRE_LESSON_LEARNED_ON_INCIDENTS, body, enrich>>

\* The enrichment call rejects: nothing in enrichChecklistWithAI catches it,
\* so the handler's catch answers.
EnrichmentThrows(msg) ==
  /\ pc = "enriching"
  /\ enrich' = ServiceRejected(msg)
  /\ response' = Failed(msg)
  /\ pc' = "done"
  /\ UNCHANGED <<argument, result, refs, influence, REQUIRE_LESSON_LEARNED_ON_INCIDENTS, body, draft, ats>>

\* The enrichment call answers and the handler runs to its response.
EnrichmentReturns(out) ==
  /\ pc = "enriching"
  /\ enrich' = out
  /\ response' =
       Ok(Reconcile(body, seeds, ats, enrichChecklistWithAI(seeds.checklistBase, out)))
  /\ pc' = "done"
  /\ UNCHANGED <<argument, result, refs, influence, REQUIRE_LESSON_LEARNED_ON_INCIDENTS, body, draft, ats>>

Next ==
  \/ RejectMissingLesson
  \/ CallDraftingService
  \/ \E msg \in ServiceErrors : DraftingServiceThrows(msg)
  \/ \E out \in DraftOutputs : DraftPostProcessFails(out)
  \/ \E out \in DraftOutputs : DraftThenEnrichmentCall(out)
  \/ \E out \in DraftOutputs : DraftThenRespond(out)
  \/ \E msg \in ServiceErrors : EnrichmentThrows(msg)
  \/ \E out \in EnrichmentOutputs(seeds.checklistBase) : EnrichmentReturns(out)

Spec == Init /\ [][Next]_vars

(***************************************************************************)
(* buildProcedureInfluence on its own: the argument is drawn from the      *)
(* sequences of references below, and one step applies the function.       *)
(***************************************************************************)
MaxRefs == 2

ControlText == "Usar arnes certificado"

\* A reference as received.  parseable is "true" or "false" for the two
\* booleans, Undefined when absent, and "'false'" for the string 'false'.
ProcedureRef(title, code, origin, parseable, administrative, ppe) ==
  [title |-> title, code |-> code, origin |-> origin, parseable |-> parseable,
   brief |->
     [EmptyBrief EXCEPT
        !.critical_controls =
          [engineering |-> <<>>, administrative |-> administrative, ppe |-> ppe]]]

RefInputs ==
  {ProcedureRef(t, c, o, "true", <<ControlText>>, <<>>) :
     t \in {Undefined, "Izaje seguro"}, c \in {Undefined, "P-01"},
     o \in {"Manual A", "Manual B"}}
    \cup {ProcedureRef("Izaje seguro", "P-01", "Manual A", pa, <<ControlText>>, <<>>) :
            pa \in {"false", Undefined, "'false'"}}
    \cup {ProcedureRef("Izaje seguro", "P-02", "Manual A", "true",
                       <<ControlText, " ", ControlText>>, <<ControlText>>),
          ProcedureRef("Soldadura", "P-03", "Manual B", "false", <<"Vigia de fuego">>, <<>>)}

RECURSIVE SeqsUpTo(_, _)
SeqsUpTo(S, n) ==
  IF n = 0 THEN {<<>>}
  ELSE SeqsUpTo(S, n - 1)
         \cup {Append(q, x) : q \in {r \in SeqsUpTo(S, n - 1) : Len(r) = n - 1}, x \in S}

InfluenceInit ==
  /\ refs \in SeqsUpTo(RefInputs, MaxRefs)
  /\ influence = NoObject
  /\ argument = NoObject
  /\ result = NoObject
  /\ REQUIRE_LESSON_LEARNED_ON_INCIDENTS = TRUE
  /\ body = [procedure_refs |-> refs]
  /\ pc = "start"
  /\ draft = NoObject
  /\ ats = NoObject
  /\ enrich = NoObject
  /\ response = NoObject

\* The call of buildProcedureInfluence.
Aggregate ==
  /\ influence = NoObject
  /\ influence' = buildProcedureInfluence(refs)
  /\ UNCHANGED <<argument, result, refs, REQUIRE_LESSON_LEARNED_ON_INCIDENTS, body, pc, draft, ats, enrich,
                 response>>

\* The handler's call: the references are normalized (line 1395) and
\* buildProcedureInfluence normalizes them again.
AggregateNormalized ==
  /\ influence = NoObject
  /\ pc = "start"
  /\ influence' = buildProcedureInfluence(MapSeq(refs, normalizeProcedureRef))
  /\ pc' = "normalized"
  /\ UNCHANGED <<argument, result, refs, REQUIRE_LESSON_LEARNED_ON_INCIDENTS, body, draft, ats, enrich,
                 response>>

InfluenceNext == Aggregate \/ AggregateNormalized

SpecInfluence == InfluenceInit /\ [][InfluenceNext]_vars

(***************************************************************************)
(* computeStopWorkTriggers on its own: the payload is drawn from the        *)
(* environments and task flags below, and one step applies the function.   *)
(***************************************************************************)
\* jobTitle stands for the fields of the payload the function does not read.
Payloads ==
  {[jobTitle |-> jt, lifting |-> l, hotWork |-> hw, workAtHeight |-> h,
    environment |->
      [timeOfDay |-> t, weather |-> w, temperatureC |-> tc, humidityPct |-> hp,
       wind |-> wi, lighting |-> li, terrain |-> te, visibility |-> v]] :
     jt \in {"Izaje de bomba"}, l \in BOOLEAN, hw \in BOOLEAN, h \in BOOLEAN,
     t \in {Undefined, "Noche"},
     w \in {Undefined, "Tormenta electrica", "Lluvia", "Viento fuerte", "Neblina"},
     tc \in {NoNumber, 29, 30, 34, 35, 36}, hp \in {NoNumber, 84, 85, 90},
     wi \in {Undefined, "Fuerte"}, li \in {Undefined, "Deficiente"},
     te \in {Undefined, "Barro"}, v \in {Undefined, "Baja"}}

TriggersInit ==
  /\ argument \in Payloads
  /\ result = NoObject
  /\ refs = <<>>
  /\ influence = NoObject
  /\ REQUIRE_LESSON_LEARNED_ON_INCIDENTS = TRUE
  /\ body = NoObject
  /\ pc = "start"
  /\ draft = NoObject
  /\ ats = NoObject
  /\ enrich = NoObject
  /\ response = NoObject

\* The call of computeStopWorkTriggers.
ComputeTriggers ==
  /\ pc = "start"
  /\ result' = computeStopWorkTriggers(argument)
  /\ pc' = "called"
  /\ UNCHANGED <<argument, refs, influence, REQUIRE_LESSON_LEARNED_ON_INCIDENTS, body,
                 draft, ats, enrich, response>>

\* A second call with the same payload.
ComputeTriggersAgain ==
  /\ pc = "called"
  /\ result' = computeStopWorkTriggers(argument)
  /\ pc' = "again"
  /\ UNCHANGED <<argument, refs, influence, REQUIRE_LESSON_LEARNED_ON_INCIDENTS, body,
                 draft, ats, enrich, response>>

SpecTriggers == TriggersInit /\ [][ComputeTriggers \/ ComputeTriggersAgain]_vars

(***************************************************************************)
(* deriveChecklistDeterministic on its own: the checklist state is drawn   *)
(* from the states below, and one step applies the function.               *)
(***************************************************************************)
\* The values the form sends for a supervisor item: "" or absent when not
\* answered, "SI", "NO", "N.A.".
ChecklistStates ==
  {[body |-> [workAtHeight |-> hd[2]],
    estrella |->
      [EmptyEstrella EXCEPT
         !.checks = [stagesClarity |-> c1, hazardsControlled |-> c2,
                     isolationConfirmed |-> c3, commsAgreed |-> c4, toolsOk |-> c5],
         !.elaborationDate = d, !.executionDate = d,
         !.incidentsReference = inc, !.otherCompanies = oc,
         !.dangerTypes = hd[1], !.emergencies = em, !.lifeSavingRules = lsr]] :
     c1 \in {Undefined, "SI", "NO"}, c2 \in {Undefined, "SI", "NO"},
     c3 \in {Undefined, "SI", "NO"}, c4 \in {Undefined, "SI", "NO"},
     c5 \in {Undefined, "SI", "NO", "N.A."},
     d \in {Undefined, "2026-01-31"},
     inc \in {Undefined, "Si", "No"}, oc \in {"Si", "No"},
     hd \in {<< <<>>, FALSE >>, << <<"Trabajo en alturas">>, FALSE >>,
             << <<"Trabajo en alturas">>, TRUE >>},
     em \in {<<>>, <<"Incendio">>}, lsr \in {<<>>, <<"Permiso de trabajo">>}}

ChecklistInit ==
  /\ argument \in ChecklistStates
  /\ result = NoObject
  /\ refs = <<>>
  /\ influence = NoObject
  /\ REQUIRE_LESSON_LEARNED_ON_INCIDENTS = TRUE
  /\ body = NoObject
  /\ pc = "start"
  /\ draft = NoObject
  /\ ats = NoObject
  /\ enrich = NoObject
  /\ response = NoObject

\* The call of deriveChecklistDeterministic.
DeriveChecklist ==
  /\ pc = "start"
  /\ result' = deriveChecklistDeterministic(argument.estrella, argument.body)
  /\ pc' = "called"
  /\ UNCHANGED <<argument, refs, influence, REQUIRE_LESSON_LEARNED_ON_INCIDENTS, body,
                 draft, ats, enrich, response>>

SpecChecklist == ChecklistInit /\ [][DeriveChecklist]_vars

(***************************************************************************)
(* buildFallbackSteps on its own: the parameters are drawn from the sets   *)
(* below, and one step applies the function.                               *)
(***************************************************************************)
StepParams ==
  {[meta |-> [title |-> t, company |-> "", location |-> "Planta", date |-> "2026-01-31",
              shift |-> "Dia"],
    hazards |-> hz,
    controls |-> [engineering |-> <<>>, administrative |-> ad, ppe |-> pp],
    tasks |-> [lifting |-> l, hotWork |-> hw, workAtHeight |-> h],
    checklist |-> [actions |-> ac]] :
     t \in {"ATS", "Izaje de bomba"},
     hz \in {<<>>, <<"Caida de carga">>, <<"Caida de carga", "Ruido">>},
     ad \in {<<>>, <<"Permiso de trabajo">>},
     pp \in {<<>>, <<"Casco">>},
     l \in BOOLEAN, hw \in BOOLEAN, h \in BOOLEAN,
     ac \in {<<>>, <<ActionEmergencies>>}}

StepsInit ==
  /\ argument \in StepParams
  /\ result = NoObject
  /\ refs = <<>>
  /\ influence = NoObject
  /\ REQUIRE_LESSON_LEARNED_ON_INCIDENTS = TRUE
  /\ body = NoObject
  /\ pc = "start"
  /\ draft = NoObject
  /\ ats = NoObject
  /\ enrich = NoObject
  /\ response = NoObject

\* The call of buildFallbackSteps.
BuildSteps ==
  /\ pc = "start"
  /\ result' = buildFallbackSteps(argument.meta, argument.hazards, argument.controls,
                                  argument.tasks, argument.checklist)
  /\ pc' = "called"
  /\ UNCHANGED <<argument, refs, influence, REQUIRE_LESSON_LEARNED_ON_INCIDENTS, body,
                 draft, ats, enrich, response>>

SpecSteps == StepsInit /\ [][BuildSteps]_vars

(***************************************************************************)
(* The two brief-extraction routes followed by generate-ats: a route turns *)
(* the output of its model into a procedure_ref, and the request carries   *)
(* that procedure_ref unchanged as the last entry of procedure_refs.       *)
(***************************************************************************)
\* The procedure_ref of the quick route when JSON.parse throws.
NotParseableRef ==
  [title |-> "Procedimiento (no parseable)", code |-> "", origin |-> "",
   brief |-> [EmptyBrief EXCEPT !.scope = "No se pudo estructurar automaticamente."],
   excerpts |-> <<>>, parseable |-> "false",
   warnings |-> <<"JSON invalido devuelto por el modelo.">>]

\* ensureProcedureRefShape of the quick route.
ensureProcedureRefShape(p) ==
  [title |-> pickString(p.title, "Procedimiento"),
   code |-> pickString(p.code, ""),
   origin |-> pickString(p.origin, ""),
   brief |-> p.brief,
   excerpts |-> <<>>, parseable |-> "true", warnings |-> <<>>]

\* safeJsonParse of the deep route; raw_text is the key _raw_text.
safeJsonParse(out) ==
  IF out.parse = "invalid"
  THEN [title |-> "Procedimiento (no parseable)", code |-> "", origin |-> "",
        brief |->
          [EmptyBrief EXCEPT
             !.scope = "No se pudo estructurar automaticamente (JSON invalido)."],
        excerpts |-> <<>>, raw_text |-> out.value]
  ELSE out.value

\* ensureProcedureRefShape of the deep route: the object it returns has no
\* parseable key (Undefined).
ensureProcedureRefShapeDeep(p) ==
  Spread(
    [title |-> pickString(p.title, "Procedimiento"),
     code |-> pickString(p.code, ""),
     origin |-> pickString(p.origin, ""),
     deep |-> TRUE,
     brief |-> p.brief,
     excerpts |-> <<>>, parseable |-> Undefined],
    IF "raw_text" \in DOMAIN p THEN [raw_text |-> p.raw_text] ELSE EmptyObject)

\* Outputs of the extraction model: text that does not parse, and objects.
BriefOutputs ==
  {[parse |-> "invalid", value |-> "El procedimiento trata de"]}
    \cup {[parse |-> "object", value |-> v] : v \in RefInputs}

BriefInit ==
  /\ argument \in
       [route : {"procedure-brief", "procedures-brief-deep"}, output : BriefOutputs,
        procedure_refs : SeqsUpTo(RefInputs, 1)]
  /\ result = NoObject
  /\ refs = <<>>
  /\ influence = NoObject
  /\ REQUIRE_LESSON_LEARNED_ON_INCIDENTS = TRUE
  /\ body = NoObject
  /\ pc = "start"
  /\ draft = NoObject
  /\ ats = NoObject
  /\ enrich = NoObject
  /\ response = NoObject

\* POST of the quick route, from the output of its model to its response.
ProcedureBrief ==
  /\ pc = "start"
  /\ argument.route = "procedure-brief"
  /\ result' = IF argument.output.parse = "invalid"
                THEN NotParseableRef
                ELSE ensureProcedureRefShape(argument.output.value)
  /\ pc' = "extracted"
  /\ UNCHANGED <<argument, refs, influence, REQUIRE_LESSON_LEARNED_ON_INCIDENTS, body,
                 draft, ats, enrich, response>>

\* POST of the deep route, from the output of its model to its response.
ProceduresBriefDeep ==
  /\ pc = "start"
  /\ argument.route = "procedures-brief-deep"
  /\ result' = ensureProcedureRefShapeDeep(safeJsonParse(argument.output))
  /\ pc' = "extracted"
  /\ UNCHANGED <<argument, refs, influence, REQUIRE_LESSON_LEARNED_ON_INCIDENTS, body,
                 draft, ats, enrich, response>>

\* generate-ats with the procedure_ref of the route as the last entry of
\* procedure_refs.
GenerateWithBrief ==
  /\ pc = "extracted"
  /\ refs' = argument.procedure_refs \o <<result>>
  /\ influence' = buildProcedureInfluence(MapSeq(refs', normalizeProcedureRef))
  /\ pc' = "aggregated"
  /\ UNCHANGED <<argument, result, REQUIRE_LESSON_LEARNED_ON_INCIDENTS, body,
                 draft, ats, enrich, response>>

SpecBrief ==
  BriefInit /\ [][ProcedureBrief \/ ProceduresBriefDeep \/ GenerateWithBrief]_vars

(***************************************************************************)
(* Two invocations of POST of generate-ats, interleaved at their awaits:   *)
(* body, pc, draft, ats, enrich and response hold, for invocation 1 and 2, *)
(* what they hold for the single invocation above.  The module-level       *)
(* bindings (client, ATS_MODEL, ATS_SCHEMA, the configuration) are never   *)
(* assigned by the handler; everything else it uses is local.              *)
(***************************************************************************)
\* Seeds kept in a module-level binding that the last request overwrites.
SeedsOfLast(i) == Seeds(body[2], REQUIRE_LESSON_LEARNED_ON_INCIDENTS)

\* The seeds invocation i computes from its own request.
SeedsOf(i) == Seeds(body[i], REQUIRE_LESSON_LEARNED_ON_INCIDENTS)

ConcurrentInit ==
  /\ REQUIRE_LESSON_LEARNED_ON_INCIDENTS \in BOOLEAN
  /\ body \in
       [{1, 2} ->
          {r \in Requests :
             /\ r.lifting
             /\ r.environment.visibility = "Baja"
             /\ r.estrella_format.emergencies # <<>>
             /\ r.estrella_format.checks.stagesClarity # Undefined
             /\ r.lesson_learned_brief = NoObject}]
  /\ pc = [i \in {1, 2} |-> "start"]
  /\ draft = [i \in {1, 2} |-> NoObject]
  /\ ats = [i \in {1, 2} |-> NoObject]
  /\ enrich = [i \in {1, 2} |-> NoObject]
  /\ response = [i \in {1, 2} |-> NoObject]
  /\ refs = <<>>
  /\ influence = NoObject
  /\ argument = NoObject
  /\ result = NoObject

\* Invocation i from its entry to the drafting call, or to the 400.
ConcurrentStart(i) ==
  /\ pc[i] = "start"
  /\ IF LessonMissing(body[i]) /\ REQUIRE_LESSON_LEARNED_ON_INCIDENTS
     THEN /\ response' = [response EXCEPT ![i] = Rejected]
          /\ pc' = [pc EXCEPT ![i] = "done"]
     ELSE /\ pc' = [pc EXCEPT ![i] = "drafting"]
          /\ UNCHANGED response
  /\ UNCHANGED <<argument, result, refs, influence, REQUIRE_LESSON_LEARNED_ON_INCIDENTS,
                 body, draft, ats, enrich>>

\* Invocation i from the answer of the drafting call to the enrichment call,
\* or to its response.
ConcurrentDraft(i) ==
  /\ pc[i] = "drafting"
  /\ \/ /\ draft' = [draft EXCEPT ![i] = ServiceRejected(RateLimitMessage)]
        /\ response' = [response EXCEPT ![i] = Failed(RateLimitMessage)]
        /\ pc' = [pc EXCEPT ![i] = "done"]
        /\ UNCHANGED ats
     \/ \E out \in {[parse |-> "invalid", value |-> EmptyObject],
                     [parse |-> "primitive", value |-> EmptyObject],
                     [parse |-> "object",
                      value |-> DraftObject("CONTINUE", MaxDraftHazards, MaxDraftSteps)]} :
          /\ draft' = [draft EXCEPT ![i] = out]
          /\ IF PostProcessThrows(out)
             THEN /\ response' = [response EXCEPT ![i] = Failed(TypeErrorMessage)]
                  /\ pc' = [pc EXCEPT ![i] = "done"]
                  /\ UNCHANGED ats
             ELSE /\ ats' = [ats EXCEPT ![i] = PostProcessDraft(SeedsOf(i), out)]
                  /\ IF EnrichmentCalls(SeedsOf(i).checklistBase)
                     THEN /\ pc' = [pc EXCEPT ![i] = "enriching"]
                          /\ UNCHANGED response
                     ELSE /\ response' =
                               [response EXCEPT
                                  ![i] = Ok(Reconcile(body[i], SeedsOf(i), ats'[i],
                                                      SeedsOf(i).checklistBase))]
                          /\ pc' = [pc EXCEPT ![i] = "done"]
  /\ UNCHANGED <<argument, result, refs, influence, REQUIRE_LESSON_LEARNED_ON_INCIDENTS,
                 body, enrich>>

\* Invocation i from the answer of the enrichment call to its response.
ConcurrentEnrich(i) ==
  /\ pc[i] = "enriching"
  /\ \/ /\ enrich' = [enrich EXCEPT ![i] = ServiceRejected(RateLimitMessage)]
        /\ response' = [response EXCEPT ![i] = Failed(RateLimitMessage)]
     \/ \E out \in {[parse |-> "invalid", value |-> EmptyObject],
                     [parse |-> "object", value |-> [decision_hint |-> "CONTINUE"]],
                     [parse |-> "object", value |-> SeedsOf(i).checklistBase]} :
          /\ enrich' = [enrich EXCEPT ![i] = out]
          /\ response' =
               [response EXCEPT
                  ![i] = Ok(Reconcile(body[i], SeedsOf(i), ats[i],
                                      enrichChecklistWithAI(SeedsOf(i).checklistBase, out)))]
  /\ pc' = [pc EXCEPT ![i] = "done"]
  /\ UNCHANGED <<argument, result, refs, influence, REQUIRE_LESSON_LEARNED_ON_INCIDENTS,
                 body, draft, ats>>

SpecConcurrent ==
  ConcurrentInit
    /\ [][\E i \in {1, 2} : ConcurrentStart(i) \/ ConcurrentDraft(i) \/ ConcurrentEnrich(i)]_vars

(***************************************************************************)
(* Properties                                                              *)
(***************************************************************************)
\* The handler has answered with a document.
Returned == pc = "done" /\ response.status = 200

\* CONTINUE < REVIEW_REQUIRED < STOP; any other value ranks below them.
Severity(decision) ==
  CASE decision = "CONTINUE" -> 0
    [] decision = "REVIEW_REQUIRED" -> 1
    [] decision = "STOP" -> 2
    [] OTHER -> -1

\* The draft is an object whose stop_work.decision is one of the three values.
DraftHasDecision ==
  /\ draft # NoObject
  /\ draft.parse = "object"
  /\ "stop_work" \in DOMAIN draft.value
  /\ draft.value.stop_work # Primitive
  /\ GetString(draft.value.stop_work, "decision") \in DecisionValues

\* The document the same request gets when neither generative answer parses.
UnparseableOutput == [parse |-> "invalid", value |-> EmptyObject]

ReferenceDocument ==
  Reconcile(body, seeds, PostProcessDraft(seeds, UnparseableOutput),
            enrichChecklistWithAI(seeds.checklistBase, UnparseableOutput))

IsPrefix(s, t) == Len(s) <= Len(t) /\ SubSeq(t, 1, Len(s)) = s

\* C1: in every returned document, a non-empty stop_work.auto_triggers
\* excludes the decision CONTINUE.
C1_TriggersForbidContinue ==
  Returned =>
    (Len(response.ats.stop_work.auto_triggers) > 0
       => response.ats.stop_work.decision # "CONTINUE")

\* C2: in every returned document, a non-empty checklist_actions.critical_fails
\* comes with decision_hint STOP and stop_work.decision STOP.
C2_CriticalFailsForceStop ==
  Returned =>
    (Len(response.ats.checklist_actions.critical_fails) > 0
       => /\ response.ats.checklist_actions.decision_hint = "STOP"
          /\ response.ats.stop_work.decision = "STOP")

\* C3: for a draft whose decision is one of the three values, the final
\* decision is at least as severe as the draft's one (so STOP stays STOP).
C3_DecisionOnlyMovesUp ==
  (Returned /\ DraftHasDecision) =>
    /\ response.ats.stop_work.decision \in DecisionValues
    /\ Severity(response.ats.stop_work.decision)
         >= Severity(draft.value.stop_work.decision)

\* C3 witness: a draft that says STOP, a merged checklist hint of
\* REVIEW_REQUIRED, and a returned document.
C3_Witness ==
  /\ Returned
  /\ DraftHasDecision
  /\ draft.value.stop_work.decision = "STOP"
  /\ response.ats.checklist_actions.decision_hint = "REVIEW_REQUIRED"
  /\ response.ats.stop_work.decision = "STOP"

\* C4: the final auto_triggers and criteria of a request do not depend on the
\* generative answers: they equal those of the document the request gets
\* with unparseable answers.
C4_TriggersIndependentOfAnswers ==
  Returned =>
    /\ response.ats.stop_work.auto_triggers = ReferenceDocument.stop_work.auto_triggers
    /\ response.ats.stop_work.criteria = ReferenceDocument.stop_work.criteria

\* C5: a drafting answer that is no draft object (text that does not parse,
\* or JSON null or a primitive) still gets status 200 and a document whose
\* auto_triggers start with the seed triggers.
C5_UnusableDraftIsAnswered ==
  (pc = "done" /\ draft # NoObject /\ draft.parse \in {"invalid", "primitive"}
     /\ (enrich = NoObject \/ enrich.parse # "rejected")) =>
    /\ response.status = 200
    /\ IsPrefix(seeds.autoTriggers, response.ats.stop_work.auto_triggers)

\* C6: the final stop_work.decision is one of STOP, CONTINUE, REVIEW_REQUIRED.
C6_DecisionIsOneOfThree ==
  Returned => response.ats.stop_work.decision \in DecisionValues

\* C7: every returned document has at least 3 hazards and at least 4 steps.
C7_CompletenessFloor ==
  Returned => Len(response.ats.hazards) >= 3 /\ Len(response.ats.steps) >= 4

\* C8: when the draft has fewer than 3 hazards or fewer than 4 steps after
\* sanitization, each of its hazards and each of its steps is in the final
\* document.
C8_FallbackKeepsDraftEntries ==
  (Returned /\ draft.parse = "object" /\ (Len(ats.hazards) < 3 \/ Len(ats.steps) < 4)) =>
    /\ Range(ats.hazards) \subseteq Range(response.ats.hazards)
    /\ Range(ats.steps) \subseteq Range(response.ats.steps)

\* C9: the final decision is at least as severe as the decision_hint of the
\* deterministic checklist evaluator for the request: a seed hint of STOP
\* gives a final STOP, a seed hint of REVIEW_REQUIRED gives a final
\* REVIEW_REQUIRED or STOP.
C9_SeedHintIsAFloor ==
  Returned =>
    /\ deriveChecklistDeterministic(body.estrella_format, body).decision_hint = "STOP"
         => response.ats.stop_work.decision = "STOP"
    /\ deriveChecklistDeterministic(body.estrella_format, body).decision_hint = "REVIEW_REQUIRED"
         => response.ats.stop_work.decision \in {"REVIEW_REQUIRED", "STOP"}

\* C10: in the checklist_actions of a returned document, decision_hint is not
\* CONTINUE while missing is non-empty or an action has priority medium or
\* high.
C10_NoContinueWithFindings ==
  Returned =>
    ~(/\ response.ats.checklist_actions.decision_hint = "CONTINUE"
      /\ \/ Len(response.ats.checklist_actions.missing) > 0
         \/ HasReviewAction(response.ats.checklist_actions.actions))

\* C11: when the enrichment call raises or answers a malformed text, the
\* handler still returns a document, and its checklist_actions is the
\* deterministic checklist seed.
C11_EnrichmentFailureAbsorbed ==
  (pc = "done" /\ enrich # NoObject /\ enrich.parse \in {"rejected", "invalid", "primitive"}) =>
    /\ response.status = 200
    /\ response.ats.checklist_actions = seeds.checklistBase

\* C12: when the drafting call raises, the handler still returns a document
\* built from the seeds: the trigger seed in stop_work.auto_triggers, the
\* checklist seed in checklist_actions, the procedure seed in
\* procedure_influence.
C12_DraftingFailureAbsorbed ==
  (pc = "done" /\ draft # NoObject /\ draft.parse = "rejected") =>
    /\ response.status = 200
    /\ IsPrefix(seeds.autoTriggers, response.ats.stop_work.auto_triggers)
    /\ response.ats.checklist_actions = seeds.checklistBase
    /\ response.ats.procedure_influence = seeds.procedureInfluence

\* C13: a rate-limit rejection of the drafting call gets an error response
\* whose status or error value differs from that of every other failure of
\* the request.
C13_RateLimitIsDistinguishable ==
  (pc = "done" /\ draft # NoObject /\ draft.parse = "rejected"
     /\ draft.value = RateLimitMessage) =>
    \A msg \in (ServiceErrors \ {RateLimitMessage}) \cup {TypeErrorMessage} :
      <<response.status, response.error>> # <<Failed(msg).status, Failed(msg).error>>

\* The request answers yes to incidents in similar work and carries no usable
\* lesson-learned brief.
IncidentsWithoutLesson ==
  /\ normalizeYesNo(body.estrella_format.incidentsReference) = "Si"
  /\ extractLessonLearnedRef(body) = NoObject

\* C14: with the require-lesson switch on, a request with incidents = yes and
\* no usable lesson-learned brief is answered with status 400 and a message,
\* without a document, and no call of the drafting service is made for it.
C14_MissingLessonIsRejected ==
  (REQUIRE_LESSON_LEARNED_ON_INCIDENTS /\ IncidentsWithoutLesson /\ pc # "start") =>
    /\ pc = "done"
    /\ response.status = 400
    /\ response.error # "" /\ response.details # ""
    /\ response.ats = NoObject
    /\ draft = NoObject /\ enrich = NoObject

\* C14 witness: a request rejected although it carries a lesson-learned
\* object, the object having no content.
C14_Witness ==
  /\ REQUIRE_LESSON_LEARNED_ON_INCIDENTS /\ IncidentsWithoutLesson
  /\ body.lesson_learned_brief # NoObject
  /\ pc = "done" /\ response.status = 400

\* C15: with the require-lesson switch off, the same request is not rejected,
\* the checklist seed gets a high-priority action the evaluator did not
\* give, and in the returned document neither decision_hint nor the decision
\* is CONTINUE, while a STOP hint of the evaluator stays STOP.
C15_FlexibleModeForcesReview ==
  (~REQUIRE_LESSON_LEARNED_ON_INCIDENTS /\ IncidentsWithoutLesson /\ pc = "done") =>
    /\ response.status # 400
    /\ \E i \in 1..Len(seeds.checklistBase.actions) :
         /\ seeds.checklistBase.actions[i].priority = "high"
         /\ seeds.checklistBase.actions[i] \notin
              Range(deriveChecklistDeterministic(body.estrella_format, body).actions)
    /\ Returned =>
         /\ response.ats.checklist_actions.decision_hint # "CONTINUE"
         /\ response.ats.stop_work.decision # "CONTINUE"
         /\ deriveChecklistDeterministic(body.estrella_format, body).decision_hint = "STOP" =>
              /\ seeds.checklistBase.decision_hint = "STOP"
              /\ response.ats.checklist_actions.decision_hint = "STOP"
              /\ response.ats.stop_work.decision = "STOP"

\* C15 witness: in the flexible mode, an enrichment answer that says CONTINUE
\* and a returned document whose hint is REVIEW_REQUIRED.
C15_Witness ==
  /\ ~REQUIRE_LESSON_LEARNED_ON_INCIDENTS /\ IncidentsWithoutLesson
  /\ Returned
  /\ enrich # NoObject /\ enrich.parse = "object"
  /\ GetString(enrich.value, "decision_hint") = "CONTINUE"
  /\ response.ats.checklist_actions.decision_hint = "REVIEW_REQUIRED"
  /\ response.ats.stop_work.decision = "REVIEW_REQUIRED"

\* C16: for every critical failure f of the deterministic checklist evaluator,
\* the final auto_triggers holds "Checklist: f" exactly once, after the seed
\* triggers.
C16_CriticalFailsBecomeTriggers ==
  Returned =>
    \A f \in Range(deriveChecklistDeterministic(body.estrella_format, body).critical_fails) :
      /\ Cardinality({i \in 1..Len(response.ats.stop_work.auto_triggers) :
                        response.ats.stop_work.auto_triggers[i] = "Checklist: " \o f}) = 1
      /\ \A i \in 1..Len(response.ats.stop_work.auto_triggers) :
           response.ats.stop_work.auto_triggers[i] = "Checklist: " \o f
             => i > Len(seeds.autoTriggers)

\* C17: every control the deterministic checklist evaluator derives and every
\* control of the procedure aggregator's derived_controls is in the final
\* controls, under its own category.
C17_DerivedControlsReachDocument ==
  Returned =>
    /\ \A level \in {"engineering", "administrative", "ppe"} :
         Range(deriveChecklistDeterministic(body.estrella_format, body).derived_controls[level])
           \subseteq Range(response.ats.controls[level])
    /\ \A d \in Range(seeds.procedureInfluence.derived_controls) :
         d.control \in Range(response.ats.controls[d.level])

\* The request that carries the lesson-learned object of body as the last
\* entry of procedure_refs, and is otherwise the same.
TwinRequest ==
  [body EXCEPT !.lesson_learned_brief = NoObject,
               !.procedure_refs = @ \o <<body.lesson_learned_brief>>]

TwinSeeds == Seeds(TwinRequest, REQUIRE_LESSON_LEARNED_ON_INCIDENTS)

\* The document of the twin request for the same generative answers.
TwinDocument ==
  Reconcile(TwinRequest, TwinSeeds, PostProcessDraft(TwinSeeds, draft),
            IF enrich # NoObject /\ EnrichmentCalls(TwinSeeds.checklistBase)
            THEN enrichChecklistWithAI(TwinSeeds.checklistBase, enrich)
            ELSE TwinSeeds.checklistBase)

\* C18: a request that carries a brief as lesson_learned_brief gets the same
\* procedure_influence and the same auto_triggers as the request that
\* carries the brief as the last entry of procedure_refs.
C18_LessonIsAProcedure ==
  (Returned /\ body.lesson_learned_brief # NoObject
     /\ ~(REQUIRE_LESSON_LEARNED_ON_INCIDENTS /\ LessonMissing(TwinRequest))) =>
    /\ response.ats.procedure_influence = TwinDocument.procedure_influence
    /\ response.ats.stop_work.auto_triggers = TwinDocument.stop_work.auto_triggers

\* The source record of the i-th reference of the argument.
SourceAt(i) ==
  [title |-> pickString(refs[i].title, "Procedimiento"),
   code |-> pickString(refs[i].code, ""),
   origin |-> pickString(refs[i].origin, "")]

\* The i-th reference carries the boolean false as parseable.
FlaggedFalse(i) == refs[i].parseable = "false"

\* The source records of the references whose index satisfies Keep, in the
\* order of the argument.
SourcesWhere(Keep(_)) ==
  LET idx == SelectSeq([i \in 1..Len(refs) |-> i], Keep)
  IN [k \in 1..Len(idx) |-> SourceAt(idx[k])]

EntriesOf(level, control, source) ==
  {k \in 1..Len(influence.derived_controls) :
     influence.derived_controls[k] = [level |-> level, control |-> control, source |-> source]}

\* Two applied references are different sources: their codes differ, or
\* neither has a code and they differ in title or origin.
DifferentSources(i, j) ==
  \/ SourceAt(i).code # SourceAt(j).code
  \/ /\ SourceAt(i).code = "" /\ SourceAt(j).code = ""
     /\ SourceAt(i) # SourceAt(j)

\* The control texts an applied reference gives at a level.
ControlsAt(i, level) ==
  {c \in Range(refs[i].brief.critical_controls[level]) : trim(c) # ""}

\* C20: a (level, control) of one source is one derived_controls entry, and
\* the same (level, control) of two applied references that are different
\* sources is two entries, one for each source.
C20_DedupKeepsDistinctSources ==
  influence # NoObject =>
    \A i, j \in {k \in 1..Len(refs) : ~FlaggedFalse(k)} :
      \A level \in {"engineering", "administrative", "ppe"} :
        \A c \in ControlsAt(i, level) \cap ControlsAt(j, level) :
          /\ Cardinality(EntriesOf(level, c, SourceAt(i))) = 1
          /\ DifferentSources(i, j) =>
               /\ Cardinality(EntriesOf(level, c, SourceAt(j))) = 1
               /\ EntriesOf(level, c, SourceAt(i)) # EntriesOf(level, c, SourceAt(j))


\* C21: aggregating references that were already normalized, as the handler
\* does, gives the same applied, not_parseable and derived_controls as
\* aggregating the references as received, because normalizing a normalized
\* reference changes nothing; so an aggregation never depends on how many
\* times its input went through the normalizer.
C21_AggregationIsStable ==
  influence # NoObject =>
    /\ influence = buildProcedureInfluence(refs)
    /\ \A i \in 1..Len(refs) :
         normalizeProcedureRef(normalizeProcedureRef(refs[i])) = normalizeProcedureRef(refs[i])

\* C21 witness: the handler's double normalization of two references, one of
\* them changed by the normalizer, that yield a derived control.
C21_Witness ==
  /\ pc = "normalized"
  /\ Len(refs) = 2
  /\ \E i \in 1..2 : normalizeProcedureRef(refs[i]) # refs[i]
  /\ Len(influence.derived_controls) > 0


\* The place of a trigger in the declaration order of the rules; the two
\* terrain texts belong to one rule.
RuleOrder ==
  <<{TriggerStorm}, {TriggerRain}, {TriggerWindLifting}, {TriggerWindHeight},
    {TriggerVisibility}, {TriggerLighting}, {TriggerNight},
    {TriggerTerrainStrict, TriggerTerrainSoft}, {TriggerTemperature}, {TriggerHumidity},
    {TriggerFog}>>

RuleOf(t) == CHOOSE k \in 1..Len(RuleOrder) : t \in RuleOrder[k]

\* C22: computeStopWorkTriggers is a function of the environment and the
\* three task flags: a second call with the same payload gives the same list,
\* the fields it does not read do not matter, every entry is the text of a
\* rule, the entries are in the declaration order of the rules, and no
\* text appears twice.
C22_TriggersOrderedAndUnique ==
  pc \in {"called", "again"} =>
    /\ result = computeStopWorkTriggers(argument)
    /\ result = computeStopWorkTriggers([argument EXCEPT !.jobTitle = "Otro trabajo"])
    /\ \A i \in 1..Len(result) : \E k \in 1..Len(RuleOrder) : result[i] \in RuleOrder[k]
    /\ \A i, j \in 1..Len(result) : i < j => RuleOf(result[i]) < RuleOf(result[j])
    /\ \A i, j \in 1..Len(result) : i # j => result[i] # result[j]

\* C22 witness: a second call whose result has the wind triggers reached by
\* both the wind field and the weather field, among six or more entries.
C22_Witness ==
  /\ pc = "again"
  /\ argument.environment.wind = "Fuerte"
  /\ argument.environment.weather = "Viento fuerte"
  /\ Len(result) >= 6

\* The value of a numeric field is a number.
IsNumber(v) == v # NoNumber

\* C23: the temperature trigger is in the result exactly when temperatureC is
\* a number >= 35, the humidity trigger exactly when humidityPct is a number
\* >= 85 and temperatureC is a number >= 30; each is decided on its own, so
\* both are present when both conditions hold and neither fires on an absent
\* value.
C23_HeatRulesIndependent ==
  pc \in {"called", "again"} =>
    LET tc == argument.environment.temperatureC
        hp == argument.environment.humidityPct
    IN /\ TriggerTemperature \in Range(result) <=> (IsNumber(tc) /\ tc >= 35)
       /\ TriggerHumidity \in Range(result)
            <=> (IsNumber(hp) /\ hp >= 85 /\ IsNumber(tc) /\ tc >= 30)
       /\ (~IsNumber(tc)) => {TriggerTemperature, TriggerHumidity} \cap Range(result) = {}
       /\ (~IsNumber(hp)) => TriggerHumidity \notin Range(result)

\* C23 witness: 35 degrees and 85 percent, both heat triggers in the result,
\* temperature first.
C23_Witness ==
  /\ pc = "called"
  /\ argument.environment.temperatureC = 35
  /\ argument.environment.humidityPct = 85
  /\ \E i \in 1..Len(result) :
       /\ i < Len(result)
       /\ result[i] = TriggerTemperature
       /\ result[i + 1] = TriggerHumidity


\* The supervisor items of the checklist state with the given answer.
ItemsAnswered(v) ==
  {i \in 1..Len(supMap) : argument.estrella.checks[supMap[i][2]] = v}

\* The places of a sequence holding the given value.
PlacesOf(q, x) == {j \in 1..Len(q) : q[j] = x}

\* C24: for every checklist state, deriveChecklistDeterministic returns one
\* critical_fails entry and one critical action, naming the item, per
\* supervisor item answered NO, and no other; one missing entry per
\* unanswered supervisor item; decision_hint is STOP exactly when
\* critical_fails is non-empty, otherwise REVIEW_REQUIRED exactly when
\* missing is non-empty or an action has priority medium or high, otherwise
\* CONTINUE.
C24_ChecklistDerivation ==
  pc = "called" =>
    LET neg == ItemsAnswered("NO")
        una == ItemsAnswered(Undefined)
        criticals == {j \in 1..Len(result.actions) : result.actions[j].priority = "critical"}
        review == \/ Len(result.missing) > 0
                  \/ \E j \in 1..Len(result.actions) :
                       result.actions[j].priority \in {"medium", "high"}
    IN /\ Len(result.critical_fails) = Cardinality(neg)
       /\ Cardinality(criticals) = Cardinality(neg)
       /\ \A i \in 1..Len(supMap) :
            /\ Cardinality(PlacesOf(result.critical_fails,
                                    "Supervisor marco NO: " \o supMap[i][1] \o "."))
                 = IF i \in neg THEN 1 ELSE 0
            /\ Cardinality({j \in criticals :
                             result.actions[j].action
                               = "Detener el trabajo y corregir el item: " \o supMap[i][3]
                                   \o ". Revalidar antes de reiniciar."})
                 = IF i \in neg THEN 1 ELSE 0
            /\ Cardinality(PlacesOf(result.missing,
                                    "Falta seleccion en verificacion del supervisor: "
                                      \o supMap[i][1] \o "."))
                 = IF i \in una THEN 1 ELSE 0
       /\ result.decision_hint = "STOP" <=> Len(result.critical_fails) > 0
       /\ Len(result.critical_fails) = 0 =>
            (result.decision_hint = "REVIEW_REQUIRED" <=> review)
       /\ (Len(result.critical_fails) = 0 /\ ~review) => result.decision_hint = "CONTINUE"
       /\ result.decision_hint \in DecisionHints

\* C24 witness: all five supervisor items answered NO: five critical_fails,
\* five critical actions, STOP.
C24_Witness ==
  /\ pc = "called"
  /\ Cardinality(ItemsAnswered("NO")) = 5
  /\ Len(result.critical_fails) = 5
  /\ Cardinality({j \in 1..Len(result.actions) : result.actions[j].priority = "critical"}) = 5
  /\ result.decision_hint = "STOP"

\* C25: the environment of every returned document is the normalized
\* environment of the request, the one the auto_triggers were computed from,
\* whatever environment the draft contains.
C25_EnvironmentIsTheRequests ==
  Returned => response.ats.environment = normalizeEnvironment(body.environment)

\* C27: in every returned document the hazards list has no duplicate entry
\* and no empty string, whether the draft supplied the hazards or the
\* fallback filled the list.
C27_HazardsAreDistinct ==
  Returned =>
    LET hz == response.ats.hazards
    IN /\ \A i \in 1..Len(hz) : hz[i] # ""
       /\ \A i, j \in 1..Len(hz) : i # j => hz[i] # hz[j]

\* C28: for every combination of the three task flags, buildFallbackSteps
\* returns five steps in order: briefing, area inspection, equipment
\* verification, exactly one execution step (the step of an active flag, the
\* generic one when no flag is active) and closeout.
C28_FiveStepSkeleton ==
  pc = "called" =>
    /\ Len(result) = 5
    /\ result[1].step = StepBriefing
    /\ result[2].step = StepInspection
    /\ result[3].step = StepEquipment
    /\ \/ argument.tasks.lifting /\ result[4].step = StepLifting
       \/ argument.tasks.hotWork /\ result[4].step = StepHotWork
       \/ argument.tasks.workAtHeight /\ result[4].step = StepHeight
       \/ /\ ~argument.tasks.lifting /\ ~argument.tasks.hotWork
             /\ ~argument.tasks.workAtHeight
          /\ result[4].step = StepGeneric
    /\ result[5].step = StepCloseout

\* A checklist_actions object of a draft: every field of the payload with
\* values of its own, and a field the payload does not have.
DraftChecklist ==
  [decision_hint |-> "STOP", missing |-> <<"Dato del borrador">>,
   critical_fails |-> <<"Fallo del borrador">>,
   derived_controls |->
     [engineering |-> <<"Control del borrador">>, administrative |-> <<>>, ppe |-> <<>>],
   actions |->
     <<[priority |-> "high", category |-> "ppe", action |-> "Accion del borrador",
        evidence |-> <<>>]>>,
   snapshot |-> [dangerTypes |-> <<"Peligro del borrador">>],
   note |-> "Campo del borrador"]

\* The draft with its checklist_actions removed.
WithoutChecklist(out) ==
  [out EXCEPT !.value = [k \in DOMAIN out.value \ {"checklist_actions"} |-> out.value[k]]]

\* The draft with ca as its checklist_actions.
WithChecklist(out, ca) ==
  [out EXCEPT !.value = Spread(WithoutChecklist(out).value, [checklist_actions |-> ca])]

\* The document of the same request and the same enrichment outcome for the
\* draft out.
DocumentForDraft(out) ==
  Reconcile(body, seeds, PostProcessDraft(seeds, out),
            IF enrich # NoObject
            THEN enrichChecklistWithAI(seeds.checklistBase, enrich)
            ELSE seeds.checklistBase)

\* C29: the checklist_actions of the draft has no influence on the returned
\* document: for the same request and the same enrichment outcome, the draft
\* without checklist_actions and the draft with another checklist_actions
\* yield the document that was returned.
C29_DraftChecklistIsIgnored ==
  (Returned /\ draft.parse = "object") =>
    /\ response.ats = DocumentForDraft(WithoutChecklist(draft))
    /\ response.ats = DocumentForDraft(WithChecklist(draft, DraftChecklist))
    /\ response.ats = DocumentForDraft(WithChecklist(draft, EmptyObject))

\* C29 witness: a draft with a checklist_actions saying CONTINUE, an
\* enrichment answer that parsed, and a returned checklist that says STOP.
C29_Witness ==
  /\ Returned
  /\ draft.parse = "object"
  /\ "checklist_actions" \in DOMAIN draft.value
  /\ draft.value.checklist_actions.decision_hint = "CONTINUE"
  /\ enrich # NoObject
  /\ enrich.parse = "object"
  /\ response.ats.checklist_actions.decision_hint = "STOP"

\* C30: a procedure whose extraction received unparseable model output is
\* listed by generate-ats under procedure_influence.not_parseable, not under
\* applied, and contributes no derived control, for the quick and for the
\* deep route, when the route's procedure_ref is passed unchanged.
C30_UnparseableBriefIsNotApplied ==
  (pc = "aggregated" /\ argument.output.parse = "invalid") =>
    LET src == SourceOf(normalizeProcedureRef(result))
    IN /\ src \in Range(influence.not_parseable)
       /\ src \notin Range(influence.applied)
       /\ \A d \in Range(influence.derived_controls) : d.source # src

\* The response a request gets when processed alone with the given answers
\* of the drafting call and of the enrichment call; NoObject when a call it
\* makes has no answer.
ResponseAlone(b, d, e) ==
  LET s == Seeds(b, REQUIRE_LESSON_LEARNED_ON_INCIDENTS)
  IN IF LessonMissing(b) /\ REQUIRE_LESSON_LEARNED_ON_INCIDENTS THEN Rejected
     ELSE IF d = NoObject THEN NoObject
     ELSE IF d.parse = "rejected" THEN Failed(d.value)
     ELSE IF PostProcessThrows(d) THEN Failed(TypeErrorMessage)
     ELSE IF ~EnrichmentCalls(s.checklistBase)
       THEN Ok(Reconcile(b, s, PostProcessDraft(s, d), s.checklistBase))
     ELSE IF e = NoObject THEN NoObject
     ELSE IF e.parse = "rejected" THEN Failed(e.value)
     ELSE Ok(Reconcile(b, s, PostProcessDraft(s, d), enrichChecklistWithAI(s.checklistBase, e)))

\* C26: in every interleaving of two invocations, each response is the
\* response the request gets when processed alone with the same answers of
\* the two calls, and a step of one invocation leaves what the other holds
\* unchanged.
C26_RequestsDoNotInterfere ==
  /\ [](\A i \in {1, 2} :
          pc[i] = "done" => response[i] = ResponseAlone(body[i], draft[i], enrich[i]))
  /\ [][\A i \in {1, 2} :
          pc'[i] # pc[i] =>
            \A j \in {1, 2} \ {i} :
              /\ pc'[j] = pc[j] /\ draft'[j] = draft[j] /\ ats'[j] = ats[j]
              /\ enrich'[j] = enrich[j] /\ response'[j] = response[j]]_vars

\* C26 witness: two different requests, both answered with a document after
\* their enrichment calls, the documents different.
C26_Witness ==
  /\ pc = [i \in {1, 2} |-> "done"]
  /\ body[1] # body[2]
  /\ \A i \in {1, 2} : response[i].status = 200 /\ enrich[i] # NoObject
  /\ response[1].ats # response[2].ats

====
